---- MODULE Spec2Model ----
(***************************************************************************)
(* Model of the corpus aggregation pipeline of BetaWordList                *)
(* (python_legacy/corpus_pipeline.py), of the tokenizer and metric engine  *)
(* it drives, and of the analysis worker thread that consumes its event    *)
(* stream (python_legacy/main_GUI.py, OptimizedAnalysisWorker).            *)
(*                                                                         *)
(* process_corpus is a Python generator: its body runs only while a        *)
(* consumer is inside next(), and every `yield` suspends it.  gen_active   *)
(* is TRUE exactly while the body is running.                              *)
(***************************************************************************)
EXTENDS Integers, Sequences, FiniteSets, TLC

\* ------------------------------------------------------------------ bounds
MaxParts == 2        \* at most this many eligible .txt files in the corpus
MaxTokens == 3       \* at most this many tokens in the whole corpus
MaxN == 2            \* at most this many parts in a directly built analyzer
MaxCount == 2        \* its frequencies and part sizes are at most this
MaxCalls == 2        \* calculate_all_metrics is called at most this often
MaxBatches == 2      \* the large vocabulary holds this many progress intervals
MaxRuns == 2         \* process_corpus is called at most this often on a pipeline

\* ------------------------------------------------------ program constants
ProgressEvery == 50  \* pass3_progress is yielded every 50th unit

\* -------------------------------------------------------------- vocabulary
\* (word, pos) pairs the tokenizer can produce; "de" is on the stopword list.
Tokens == { <<"w", "n">>, <<"de", "u">> }
StopWords == { "de" }

VARIABLES
  \* inputs of one run, fixed by Init
  arg_ok,                  \* file_paths_or_dir is a directory path or a list
  docs,                    \* the eligible files (file_paths), in order
  yield_progress,          \* process_corpus(..., yield_progress)
  exclude_stop_words,      \* exclude_stop_words_from_analysis
  ltp, stnsplit,           \* ChineseLtpProcessor.ltp / .stnsplit are not None
  \* ChineseCorpusPipeline instance state
  num_texts, corpus_part_sizes_words, total_corpus_words,
  master_vocabulary_data,
  vocab_order,             \* insertion order of master_vocabulary_data
  \* locals of process_corpus
  gpc, i, per_text_word_pos_counts_list, text_idx, processed_count,
  all_word_metrics_results,
  \* generator protocol
  gen_active, gen_outcome, events, pending,
  \* OptimizedAnalysisWorker
  wpc, should_stop, mutex, pipeline, final_results_list, signals,
  \* GUI thread calling stop()
  spc, stop_returned,
  flag_log,                \* history of the accesses to _should_stop made
                           \* by stop() and by the worker's event loop
  \* EnhancedMainWindow, whose slots receive the worker's signals
  start_button_enabled, cancel_button_enabled,
  analysis_results_data,
  delivered,               \* how many of the worker's signals were handled
  finished_handled,        \* QThread.finished of the worker was handled
  extra_workers,           \* workers started by later clicks on start
  csv_file,                \* the rows _write_csv_file wrote
  \* a caller that uses one pipeline instance for several runs
  run_no,                  \* the number of calls of process_corpus so far
  \* direct (non-GUI) caller of process_corpus
  cpc,
  \* history of calls made to the collaborators
  read_log, tokenizer_log, engine_log,
  \* a CorpusWordAnalyzer constructed directly by a caller
  an_pc,                   \* position of that caller
  an_v, an_sizes, an_T,    \* the arguments v, corpus_part_sizes_words,
                           \* total_corpus_words
  an_error,                \* the exception __init__ raised, or "none"
  an_self,                 \* the attributes of the constructed analyzer
  an_metrics               \* the records calculate_all_metrics returned

inputs == <<arg_ok, docs, yield_progress, exclude_stop_words, ltp, stnsplit>>
pstate == <<num_texts, corpus_part_sizes_words, total_corpus_words,
            master_vocabulary_data, vocab_order>>
locals == <<i, per_text_word_pos_counts_list, text_idx, processed_count,
            all_word_metrics_results>>
genv == <<gen_active, gen_outcome, events, pending>>
workerv == <<wpc, should_stop, mutex, pipeline, final_results_list, signals>>
guiv == <<spc, stop_returned, flag_log>>
window == <<start_button_enabled, cancel_button_enabled,
            analysis_results_data, delivered, finished_handled,
            extra_workers, csv_file>>
session == <<run_no>>
logs == <<read_log, tokenizer_log, engine_log>>
analyzer == <<an_pc, an_v, an_sizes, an_T, an_error, an_self, an_metrics>>
vars == <<inputs, pstate, locals, gpc, genv, workerv, guiv, window, session,
          cpc, logs, analyzer>>

\* --------------------------------------------------------------- helpers
RECURSIVE SeqSum(_)
SeqSum(s) == IF s = <<>> THEN 0 ELSE Head(s) + SeqSum(Tail(s))

RECURSIVE SeqFilter(_, _)
SeqFilter(s, keep) ==
  IF s = <<>> THEN <<>>
  ELSE IF Head(s) \in keep THEN <<Head(s)>> \o SeqFilter(Tail(s), keep)
       ELSE SeqFilter(Tail(s), keep)

Range(s) == { s[k] : k \in DOMAIN s }

Zeros(n) == [k \in 1..n |-> 0]

\* All sequences over S of length at most n.
SeqsUpTo(S, n) == UNION { [1..k -> S] : k \in 0..n }

\* All orderings of a finite set.
Orderings(S) ==
  { o \in [1..Cardinality(S) -> S] : \A a, b \in DOMAIN o : a # b => o[a] # o[b] }

\* Variant of Counter that records presence instead of occurrences.
Counter_Presence(seq) == [u \in Range(seq) |-> 1]

\* Counter(seq): unit -> number of occurrences, keys are the units present.
Counter(seq) ==
  [u \in Range(seq) |-> Cardinality({ k \in DOMAIN seq : seq[k] = u })]

\* ------------------------------------------------------------- documents
\* The token sequences considered for one text.  The pipeline only counts
\* the units of a text (Counter) and the stopword filter keeps their order,
\* so one order per multiset of tokens is taken: the stopwords come last.
Texts ==
  { t \in SeqsUpTo(Tokens, MaxTokens) :
      \A a, b \in DOMAIN t :
        (a < b /\ t[a][1] \in StopWords) => t[b][1] \in StopWords }

\* A document is "empty" (unreadable, so that _read_file returns "", or
\* blank), or a text that LTP segments into the sequence toks.
Documents ==
  { [kind |-> "empty", toks |-> <<>>] }
  \cup { [kind |-> "text", toks |-> t] : t \in Texts }

\* The corpora considered: at most MaxParts eligible files holding at most
\* MaxTokens tokens together.
Corpora ==
  { c \in SeqsUpTo(Documents, MaxParts) :
      SeqSum([k \in DOMAIN c |-> Len(c[k].toks)]) <= MaxTokens }

\* _read_file: the content, or "" when no encoding decodes the file or the
\* read fails otherwise.
ReadFile(doc) ==
  IF doc.kind = "empty" THEN [blank |-> TRUE, toks |-> <<>>]
  ELSE [blank |-> FALSE, toks |-> doc.toks]

\* ChineseLtpProcessor.is_ready
IsReady == ltp /\ stnsplit

\* ChineseLtpProcessor._filter_stopwords
FilterStopwords(pairs) ==
  SeqFilter(pairs, { t \in Tokens : t[1] \notin StopWords })

\* Variant of ProcessTextChinese that counts the tokens after the stopword
\* filter.
ProcessTextChinese_CountAfterFilter(toks, exclude) ==
  [units |-> IF exclude /\ StopWords # {} THEN FilterStopwords(toks) ELSE toks,
   size |-> Len(IF exclude /\ StopWords # {} THEN FilterStopwords(toks)
                ELSE toks)]

\* ChineseLtpProcessor.process_text_chinese on a text that LTP processes
\* without raising: (units after the stopword policy, valid token count
\* before it).
ProcessTextChinese(toks, exclude) ==
  [units |-> IF exclude /\ StopWords # {} THEN FilterStopwords(toks) ELSE toks,
   size |-> Len(toks)]


\* ------------------------------------------------------ exact arithmetic
\* NumPy computes in floating point.  The model computes the same
\* expressions exactly, on fractions in lowest terms with a positive
\* denominator, so that equal values are equal records.
RECURSIVE GCD(_, _)
GCD(a, b) == IF b = 0 THEN a ELSE GCD(b, a % b)

Abs(x) == IF x < 0 THEN -x ELSE x

\* a / b for integers a and b # 0
Frac(a, b) ==
  LET g == GCD(Abs(a), Abs(b))
      sgn == IF b < 0 THEN -1 ELSE 1
  IN [num |-> sgn * (a \div g), den |-> sgn * (b \div g)]

FAdd(x, y) == Frac(x.num * y.den + y.num * x.den, x.den * y.den)
FSub(x, y) == Frac(x.num * y.den - y.num * x.den, x.den * y.den)
FMul(x, y) == Frac(x.num * y.num, x.den * y.den)
FDiv(x, y) == Frac(x.num * y.den, x.den * y.num)
FAbs(x) == [num |-> Abs(x.num), den |-> x.den]
FLess(x, y) == x.num * y.den < y.num * x.den
FMin(x, y) == IF FLess(y, x) THEN y ELSE x
FMax(x, y) == IF FLess(x, y) THEN y ELSE x

RECURSIVE FSum(_)
FSum(s) == IF s = <<>> THEN Frac(0, 1) ELSE FAdd(Head(s), FSum(Tail(s)))

\* The comparisons with 1e-9 and 1e-12.  The values of the model are
\* integers and fractions with small denominators, none of which lies
\* strictly between 0 and 1e-9, so `x < 1e-9` and `x <= 1e-12` are x <= 0
\* and `abs(x) < 1e-12` is x = 0.
NotAbove(x) == x.num <= 0
NearZero(x) == x.num = 0

\* ---------------------------------------------------------- metric engine
\* CorpusWordAnalyzer.__init__ validation: the exception it raises, or "none".
AnalyzerInitError(v, sizes, T) ==
  IF Len(v) # Len(sizes) THEN "ValueError"
  ELSE IF Len(v) = 0 THEN "ValueError"
  ELSE IF T <= 0 THEN "ValueError"
  ELSE IF \E k \in DOMAIN sizes : sizes[k] < 0 THEN "ValueError"
  ELSE "none"

\* self.f: the overall frequency
f_of(v) == SeqSum(v)

\* self.s: the share of each part in the corpus
s_of(sizes, T) == [k \in DOMAIN sizes |-> Frac(sizes[k], T)]

\* self.p: the density of the unit in each part, 0 in a part of size 0
p_of(v, sizes) ==
  [k \in DOMAIN v |-> IF sizes[k] > 0 THEN Frac(v[k], sizes[k]) ELSE Frac(0, 1)]

\* A metric whose value involves a square root or a logarithm is kept as
\* the expression the code evaluates: its kind and the fractions it is
\* evaluated on.
Exact(x) == [kind |-> "exact", val |-> x, args |-> <<>>]
Inf == [kind |-> "inf", val |-> Frac(0, 1), args |-> <<>>]
Expr(kind, args) == [kind |-> kind, val |-> Frac(0, 1), args |-> args]

\* CorpusWordAnalyzer._kl_term: p * log2(p / q); log2(1) is 0
_kl_term(p_val, q_val) ==
  IF NotAbove(p_val) THEN Exact(Frac(0, 1))
  ELSE IF NotAbove(q_val) THEN Inf
  ELSE IF NotAbove(FDiv(p_val, q_val)) THEN Exact(Frac(0, 1))
  ELSE IF FDiv(p_val, q_val) = Frac(1, 1) THEN Exact(Frac(0, 1))
  ELSE Expr("p_log2_ratio", <<p_val, FDiv(p_val, q_val)>>)

\* Variant of get_range that also counts the parts without the unit.
get_range_WithZero(v) == Cardinality({ k \in DOMAIN v : v[k] >= 0 })

\* CorpusWordAnalyzer.get_range
get_range(v) == Cardinality({ k \in DOMAIN v : v[k] > 0 })

\* CorpusWordAnalyzer.get_mean_text_frequency_FT (n > 0 once constructed)
get_mean_text_frequency_FT(v, sizes) ==
  FDiv(FSum(p_of(v, sizes)), Frac(Len(v), 1))

\* CorpusWordAnalyzer.get_pervasiveness_PT (n > 0 once constructed)
get_pervasiveness_PT(v) == Frac(get_range(v), Len(v))

\* Variant of PairwiseDiffs whose inner loop starts at j = i.
RECURSIVE PairwiseDiffs_FromSelf(_, _, _)
PairwiseDiffs_FromSelf(p, a, b) ==
  IF a > Len(p) THEN [sum_abs_pairwise_diff |-> Frac(0, 1), num_pairs |-> 0]
  ELSE IF b > Len(p) THEN PairwiseDiffs_FromSelf(p, a + 1, a + 1)
  ELSE LET rest == PairwiseDiffs_FromSelf(p, a, b + 1)
       IN [sum_abs_pairwise_diff |->
             FAdd(FAbs(FSub(p[a], p[b])), rest.sum_abs_pairwise_diff),
           num_pairs |-> rest.num_pairs + 1]

\* get_evenness_DA lines 352-361: the two nested loops, from the pair
\* (i, j) = (a, b) on
RECURSIVE PairwiseDiffs(_, _, _)
PairwiseDiffs(p, a, b) ==
  IF a > Len(p) THEN [sum_abs_pairwise_diff |-> Frac(0, 1), num_pairs |-> 0]
  ELSE IF b > Len(p) THEN PairwiseDiffs(p, a + 1, a + 2)
  ELSE LET rest == PairwiseDiffs(p, a, b + 1)
       IN [sum_abs_pairwise_diff |->
             FAdd(FAbs(FSub(p[a], p[b])), rest.sum_abs_pairwise_diff),
           num_pairs |-> rest.num_pairs + 1]

\* Variant of get_evenness_DA without the test of f.
get_evenness_DA_NoZeroGuard(v, sizes) ==
  IF Len(v) = 1 THEN Frac(1, 1)
  ELSE
    LET p == p_of(v, sizes)
        ft == get_mean_text_frequency_FT(v, sizes)
    IN IF NearZero(ft)
         THEN IF \A k \in DOMAIN p : NearZero(FSub(p[k], ft))
                THEN Frac(1, 1) ELSE Frac(0, 1)
         ELSE
           LET d == PairwiseDiffs(p, 1, 2)
               avg == FDiv(d.sum_abs_pairwise_diff, Frac(d.num_pairs, 1))
           IN FMax(Frac(0, 1),
                   FMin(Frac(1, 1),
                        FSub(Frac(1, 1), FDiv(avg, FMul(Frac(2, 1), ft)))))

\* CorpusWordAnalyzer.get_evenness_DA (n > 0 once constructed; with n >= 2
\* there is at least one pair and, past the test of the mean, the
\* denominator is not 0)
get_evenness_DA(v, sizes) ==
  IF f_of(v) <= 0 THEN Frac(0, 1)
  ELSE IF Len(v) = 1 THEN Frac(1, 1)
  ELSE
    LET p == p_of(v, sizes)
        ft == get_mean_text_frequency_FT(v, sizes)
    IN IF NearZero(ft)
         THEN IF \A k \in DOMAIN p : NearZero(FSub(p[k], ft))
                THEN Frac(1, 1) ELSE Frac(0, 1)
         ELSE
           LET d == PairwiseDiffs(p, 1, 2)
               avg == FDiv(d.sum_abs_pairwise_diff, Frac(d.num_pairs, 1))
           IN FMax(Frac(0, 1),
                   FMin(Frac(1, 1),
                        FSub(Frac(1, 1), FDiv(avg, FMul(Frac(2, 1), ft)))))

\* CorpusWordAnalyzer.get_juilland_d.  Past the special cases the value is
\* 1 - (sd_population_p / mean_p) / sqrt(n - 1), kept as its ingredients
\* <<sd_population_p squared, mean_p, n - 1>>.
get_juilland_d(v, sizes) ==
  IF Len(v) <= 1
    THEN IF f_of(v) > 0 THEN Exact(Frac(1, 1)) ELSE Exact(Frac(0, 1))
  ELSE IF f_of(v) <= 0 THEN Exact(Frac(0, 1))
  ELSE
    LET p == p_of(v, sizes)
        mean_p == FDiv(FSum(p), Frac(Len(v), 1))
        variance_p ==
          FDiv(FSum([k \in DOMAIN p |->
                       FMul(FSub(p[k], mean_p), FSub(p[k], mean_p))]),
               Frac(Len(v), 1))
    IN IF NearZero(mean_p)
         THEN IF NearZero(variance_p)
                THEN Exact(Frac(1, 1)) ELSE Exact(Frac(0, 1))
         ELSE Expr("one_minus_vc_over_sqrt",
                   <<variance_p, mean_p, Frac(Len(v) - 1, 1)>>)

\* CorpusWordAnalyzer.get_carroll_d2.  Past the special cases the value is
\* the entropy of the positive normalised proportions divided by log2(n)
\* (n >= 2, so log2(n) is not 0), kept as <<n, the proportions>>.
get_carroll_d2(v, sizes) ==
  IF Len(v) <= 1
    THEN IF f_of(v) > 0 THEN Exact(Frac(1, 1)) ELSE Exact(Frac(0, 1))
  ELSE
    LET p == p_of(v, sizes)
        sum_p_values == FSum(p)
    IN IF NearZero(sum_p_values) THEN Exact(Frac(0, 1))
       ELSE
         LET norm_proportions == [k \in DOMAIN p |-> FDiv(p[k], sum_p_values)]
             positive == { k \in DOMAIN p : ~NotAbove(norm_proportions[k]) }
         IN Expr("entropy_over_log2_n",
                 <<Frac(Len(v), 1)>> \o
                 [k \in DOMAIN p |->
                    IF k \in positive THEN norm_proportions[k] ELSE Frac(0, 1)])

\* Variant of get_dp that, instead of returning early, takes the observed
\* proportions of an absent unit to be 0.
get_dp_ZeroProportions(v, sizes, T) ==
  LET s == s_of(sizes, T)
  IN FMul(Frac(1, 2),
          FSum([k \in DOMAIN v |->
                  FAbs(FSub(IF f_of(v) <= 0 THEN Frac(0, 1)
                            ELSE Frac(v[k], f_of(v)), s[k]))]))

\* CorpusWordAnalyzer.get_dp
get_dp(v, sizes, T) ==
  IF f_of(v) <= 0 THEN Frac(0, 1)
  ELSE
    LET s == s_of(sizes, T)
    IN FMul(Frac(1, 2),
            FSum([k \in DOMAIN v |->
                    FAbs(FSub(Frac(v[k], f_of(v)), s[k]))]))

\* Variant of get_kl_divergence that skips a term whose expected share is 0.
get_kl_divergence_SkipsEmptyPart(v, sizes, T) ==
  IF f_of(v) <= 0 THEN Exact(Frac(0, 1))
  ELSE
    LET s == s_of(sizes, T)
        term == [k \in DOMAIN v |->
                   IF NotAbove(s[k]) THEN Exact(Frac(0, 1))
                   ELSE _kl_term(Frac(v[k], f_of(v)), s[k])]
        summed == { k \in DOMAIN v : term[k].kind = "p_log2_ratio" }
    IN IF summed = {} THEN Exact(Frac(0, 1))
       ELSE Expr("sum_p_log2_ratio",
                 [k \in DOMAIN v |->
                    IF k \in summed THEN term[k].args ELSE <<>>])

\* CorpusWordAnalyzer.get_kl_divergence: +inf as soon as one term is,
\* else the sum of the terms (0.0 when every term is 0.0), kept as the
\* <<p, p / q>> of its terms
get_kl_divergence(v, sizes, T) ==
  IF f_of(v) <= 0 THEN Exact(Frac(0, 1))
  ELSE
    LET s == s_of(sizes, T)
        term == [k \in DOMAIN v |-> _kl_term(Frac(v[k], f_of(v)), s[k])]
        summed == { k \in DOMAIN v : term[k].kind = "p_log2_ratio" }
    IN IF \E k \in DOMAIN v : term[k].kind = "inf" THEN Inf
       ELSE IF summed = {} THEN Exact(Frac(0, 1))
       ELSE Expr("sum_p_log2_ratio",
                 [k \in DOMAIN v |->
                    IF k \in summed THEN term[k].args ELSE <<>>])

\* CorpusWordAnalyzer.get_sd_population: sqrt of the population variance
\* of v, kept as <<variance>>; sqrt(0) is 0
get_sd_population(v) ==
  IF f_of(v) <= 0 THEN Exact(Frac(0, 1))
  ELSE
    LET mean_v == Frac(f_of(v), Len(v))
        variance_v ==
          FDiv(FSum([k \in DOMAIN v |->
                       FMul(FSub(Frac(v[k], 1), mean_v),
                            FSub(Frac(v[k], 1), mean_v))]),
               Frac(Len(v), 1))
    IN IF NearZero(variance_v) THEN Exact(Frac(0, 1))
       ELSE Expr("sqrt", <<variance_v>>)

\* CorpusWordAnalyzer.get_vc_population: sd / mean_v, kept as
\* <<variance, mean_v>> (with mean_v = 0 the frequency f is 0 as well)
get_vc_population(v) ==
  LET mean_v == Frac(f_of(v), Len(v))
      sd == get_sd_population(v)
  IN IF NearZero(mean_v) THEN Exact(Frac(0, 1))
     ELSE IF sd.kind = "exact" THEN Exact(FDiv(sd.val, mean_v))
     ELSE Expr("sqrt_over", sd.args \o <<mean_v>>)

\* CorpusWordAnalyzer.get_roschengren_s_adj: (sum sqrt(s_i * v_i))^2 / f,
\* kept as <<f, s_1 * v_1, ..., s_n * v_n>>
get_roschengren_s_adj(v, sizes, T) ==
  IF f_of(v) <= 0 THEN Exact(Frac(0, 1))
  ELSE
    LET s == s_of(sizes, T)
    IN Expr("squared_sum_sqrt_over",
            <<Frac(f_of(v), 1)>> \o
            [k \in DOMAIN v |-> FMul(s[k], Frac(v[k], 1))])

\* np.min of a non-empty array
np_min(s) ==
  CHOOSE x \in Range(s) : \A y \in Range(s) : ~FLess(y, x)

\* CorpusWordAnalyzer.get_dp_norm (n > 0 once constructed)
get_dp_norm(v, sizes, T) ==
  LET dp_val == get_dp(v, sizes, T)
      denominator == FSub(Frac(1, 1), np_min(s_of(sizes, T)))
  IN IF NearZero(denominator)
       THEN IF NearZero(dp_val) THEN Frac(0, 1) ELSE Frac(1, 1)
       ELSE FDiv(dp_val, denominator)

\* CorpusWordAnalyzer.get_jsd_dispersion: 0.0 as soon as a term is +inf,
\* else 1 - clamp(0.5 * (KL(P_obs || M) + KL(S || M))), kept as the
\* <<p, p / q>> of the terms of the two sums (1.0 when every term is 0.0)
get_jsd_dispersion(v, sizes, T) ==
  IF f_of(v) <= 0 THEN Exact(Frac(0, 1))
  ELSE
    LET S == s_of(sizes, T)
        P_obs == [k \in DOMAIN v |-> Frac(v[k], f_of(v))]
        M == [k \in DOMAIN v |-> FMul(Frac(1, 2), FAdd(P_obs[k], S[k]))]
        p_m == [k \in DOMAIN v |-> _kl_term(P_obs[k], M[k])]
        q_m == [k \in DOMAIN v |-> _kl_term(S[k], M[k])]
        terms == p_m \o q_m
        summed == { k \in DOMAIN terms : terms[k].kind = "p_log2_ratio" }
    IN IF \E k \in DOMAIN terms : terms[k].kind = "inf"
         THEN Exact(Frac(0, 1))
       ELSE IF summed = {} THEN Exact(Frac(1, 1))
       ELSE Expr("one_minus_clamped_half_sum",
                 [k \in DOMAIN terms |->
                    IF k \in summed THEN terms[k].args ELSE <<>>])

\* CorpusWordAnalyzer.get_hellinger_dispersion:
\* 1 - sqrt(1 - clamp(sum sqrt(P_obs_i * s_i))), kept as the products
get_hellinger_dispersion(v, sizes, T) ==
  IF f_of(v) <= 0 THEN Exact(Frac(0, 1))
  ELSE
    LET S == s_of(sizes, T)
    IN Expr("one_minus_sqrt_one_minus_sum_sqrt",
            [k \in DOMAIN v |-> FMul(Frac(v[k], f_of(v)), S[k])])

\* CorpusWordAnalyzer.get_ft_adjusted_by_PT
get_ft_adjusted_by_PT(v, sizes) ==
  FMul(get_mean_text_frequency_FT(v, sizes), get_pervasiveness_PT(v))

\* CorpusWordAnalyzer.get_ft_adjusted_by_DA
get_ft_adjusted_by_DA(v, sizes) ==
  FMul(get_mean_text_frequency_FT(v, sizes), get_evenness_DA(v, sizes))

\* CorpusWordAnalyzer.calculate_all_metrics: the sixteen fields of the
\* DispersionMetrics record, in the order of the source
calculate_all_metrics(v, sizes, T) ==
  [range_val |-> get_range(v),
   sd_population |-> get_sd_population(v),
   vc_population |-> get_vc_population(v),
   juilland_d |-> get_juilland_d(v, sizes),
   carroll_d2 |-> get_carroll_d2(v, sizes),
   roschengren_s_adj |-> get_roschengren_s_adj(v, sizes, T),
   dp |-> get_dp(v, sizes, T),
   dp_norm |-> get_dp_norm(v, sizes, T),
   kl_divergence |-> get_kl_divergence(v, sizes, T),
   jsd_dispersion |-> get_jsd_dispersion(v, sizes, T),
   hellinger_dispersion |-> get_hellinger_dispersion(v, sizes, T),
   mean_text_frequency_FT |-> get_mean_text_frequency_FT(v, sizes),
   pervasiveness_PT |-> get_pervasiveness_PT(v),
   evenness_DA |-> get_evenness_DA(v, sizes),
   ft_adjusted_by_PT |-> get_ft_adjusted_by_PT(v, sizes),
   ft_adjusted_by_DA |-> get_ft_adjusted_by_DA(v, sizes)]

\* ----------------------------------------------------------------- events
Ev(t) == [type |-> t, current |-> 0, total |-> 0, unit |-> <<>>, data |-> <<>>]
NoEvent == Ev("none")

NotFinished == [kind |-> "none", exc |-> "", has_value |-> FALSE, value |-> <<>>]
Returned(hasv, val) ==
  [kind |-> "returned", exc |-> "", has_value |-> hasv, value |-> val]
Raised(e) == [kind |-> "raised", exc |-> e, has_value |-> FALSE, value |-> <<>>]

\* `yield ev`: the event is handed to the consumer and the body is suspended.
Suspend(ev) ==
  /\ events' = Append(events, ev)
  /\ pending' = ev
  /\ gen_active' = FALSE
  /\ UNCHANGED gen_outcome

\* `if yield_progress: yield ev  else: print(...)`
Yield(ev) == IF yield_progress THEN Suspend(ev) ELSE UNCHANGED genv

\* `return` / `return value` inside the generator body (StopIteration).
Return(hasv, val) ==
  /\ gen_outcome' = Returned(hasv, val)
  /\ gen_active' = FALSE
  /\ UNCHANGED <<events, pending>>

\* an exception leaving the generator body
Raise(e) ==
  /\ gen_outcome' = Raised(e)
  /\ gen_active' = FALSE
  /\ UNCHANGED <<events, pending>>

\* ------------------------------------------------------------------- Init
Init ==
  /\ arg_ok \in BOOLEAN
  /\ docs \in Corpora
  /\ yield_progress \in BOOLEAN
  /\ exclude_stop_words \in BOOLEAN
  /\ ltp \in BOOLEAN
  /\ stnsplit \in BOOLEAN
  /\ (stnsplit => ltp)              \* StnSplit is only built once LTP loaded
  /\ (~arg_ok => docs = <<>>)
  \* ChineseCorpusPipeline.__init__
  /\ num_texts = 0
  /\ corpus_part_sizes_words = <<>>
  /\ total_corpus_words = 0
  /\ master_vocabulary_data = <<>>
  /\ vocab_order = <<>>
  /\ gpc = "none"
  /\ i = 0
  /\ per_text_word_pos_counts_list = <<>>
  /\ text_idx = 0
  /\ processed_count = 0
  /\ all_word_metrics_results = <<>>
  /\ gen_active = FALSE
  /\ gen_outcome = NotFinished
  /\ events = <<>>
  /\ pending = NoEvent
  \* OptimizedAnalysisWorker.__init__ (the worker drives event-mode runs)
  /\ wpc = IF yield_progress THEN "run" ELSE "off"
  /\ should_stop = FALSE
  /\ mutex = "free"
  /\ pipeline = FALSE
  /\ final_results_list = <<>>
  /\ signals = <<>>
  /\ spc = "idle"
  /\ stop_returned = FALSE
  /\ flag_log = <<>>
  \* _prepare_ui_for_analysis_start has run: the worker was just started
  /\ start_button_enabled = FALSE
  /\ cancel_button_enabled = TRUE
  /\ analysis_results_data = <<>>
  /\ delivered = 0
  /\ finished_handled = FALSE
  /\ extra_workers = 0
  /\ csv_file = <<>>
  /\ run_no = 1
  /\ cpc = IF yield_progress THEN "off" ELSE "call"
  /\ read_log = <<>>
  /\ tokenizer_log = <<>>
  /\ engine_log = <<>>
  \* no analyzer is built outside the pipeline
  /\ an_pc = "off"
  /\ an_v = <<>> /\ an_sizes = <<>> /\ an_T = 0
  /\ an_error = "none"
  /\ an_self = <<>>
  /\ an_metrics = <<>>

\* ------------------------------------------- process_corpus (generator)
\* lines 111-117: the argument is neither a directory path nor a list
G_BadArg ==
  /\ gen_active /\ gpc = "created" /\ ~arg_ok
  /\ IF yield_progress
       THEN Suspend(Ev("error")) /\ gpc' = "bad_arg_return"
       ELSE Raise("ValueError") /\ gpc' = "raised"
  /\ UNCHANGED <<analyzer, inputs, pstate, locals, workerv, guiv, window, session, cpc, logs>>

\* line 115: return after the error event
G_BadArgReturn ==
  /\ gen_active /\ gpc = "bad_arg_return"
  /\ Return(FALSE, <<>>) /\ gpc' = "done"
  /\ UNCHANGED <<analyzer, inputs, pstate, locals, workerv, guiv, window, session, cpc, logs>>

\* Variant of G_NoFiles without the early return: the body goes on to pass 1.
G_NoFiles_NoReturn ==
  /\ gen_active /\ gpc = "created" /\ arg_ok /\ Len(docs) = 0
  /\ num_texts' = Len(docs)
  /\ Yield(Ev("status")) /\ gpc' = "p1_loop"
  /\ UNCHANGED <<analyzer, inputs, corpus_part_sizes_words, total_corpus_words,
                 master_vocabulary_data, vocab_order, locals, workerv, guiv, window, session,
                 cpc, logs>>

\* lines 119-128: no eligible .txt file
G_NoFiles ==
  /\ gen_active /\ gpc = "created" /\ arg_ok /\ Len(docs) = 0
  /\ num_texts' = Len(docs)
  /\ IF yield_progress
       THEN Suspend(Ev("status")) /\ gpc' = "empty_final"
       ELSE Return(TRUE, <<>>) /\ gpc' = "done"
  /\ UNCHANGED <<analyzer, inputs, corpus_part_sizes_words, total_corpus_words,
                 master_vocabulary_data, vocab_order, locals, workerv, guiv, window, session,
                 cpc, logs>>

\* Variant of G_EmptyFinal without the return that follows the yield: the
\* body falls through to pass 2.
G_EmptyFinal_FallThrough ==
  /\ gen_active /\ gpc = "empty_final"
  /\ Suspend(Ev("final_results")) /\ gpc' = "p2_build"
  /\ UNCHANGED <<analyzer, inputs, pstate, locals, workerv, guiv, window, session, cpc, logs>>

\* lines 124 and 202: yield final_results with an empty list
G_EmptyFinal ==
  /\ gen_active /\ gpc = "empty_final"
  /\ Suspend(Ev("final_results")) /\ gpc' = "final_return"
  /\ UNCHANGED <<analyzer, inputs, pstate, locals, workerv, guiv, window, session, cpc, logs>>

\* lines 125, 203 and the end of the body: return after final_results
G_FinalReturn ==
  /\ gen_active /\ gpc = "final_return"
  /\ Return(FALSE, <<>>) /\ gpc' = "done"
  /\ UNCHANGED <<analyzer, inputs, pstate, locals, workerv, guiv, window, session, cpc, logs>>

\* Variant of G_Reset that does not empty the vocabulary.
G_Reset_KeepsVocabulary ==
  /\ gen_active /\ gpc = "created" /\ arg_ok /\ Len(docs) > 0
  /\ num_texts' = Len(docs)
  /\ corpus_part_sizes_words' = Zeros(Len(docs))
  /\ total_corpus_words' = 0
  /\ per_text_word_pos_counts_list' = <<>>
  /\ i' = 0
  /\ Yield(Ev("status")) /\ gpc' = "p1_loop"
  /\ UNCHANGED <<analyzer, inputs, master_vocabulary_data, vocab_order,
                 text_idx, processed_count, all_word_metrics_results,
                 workerv, guiv, window, session, cpc, logs>>

\* lines 119, 130-143: reset the instance state, announce pass 1
G_Reset ==
  /\ gen_active /\ gpc = "created" /\ arg_ok /\ Len(docs) > 0
  /\ num_texts' = Len(docs)
  /\ corpus_part_sizes_words' = Zeros(Len(docs))
  /\ total_corpus_words' = 0
  /\ master_vocabulary_data' = <<>>
  /\ vocab_order' = <<>>
  /\ per_text_word_pos_counts_list' = <<>>
  /\ i' = 0
  /\ Yield(Ev("status")) /\ gpc' = "p1_loop"
  /\ UNCHANGED <<analyzer, inputs, text_idx, processed_count, all_word_metrics_results,
                 workerv, guiv, window, session, cpc, logs>>

\* Variant of G_Pass1Progress that yields the progress event for the first
\* part only.
G_Pass1Progress_FirstOnly ==
  /\ gen_active /\ gpc = "p1_loop" /\ i < num_texts
  /\ IF i = 0
       THEN Yield([Ev("pass1_progress") EXCEPT
                     !.current = i + 1, !.total = num_texts])
       ELSE UNCHANGED genv
  /\ gpc' = "p1_read"
  /\ UNCHANGED <<analyzer, inputs, pstate, locals, workerv, guiv, window, session, cpc, logs>>

\* lines 145-164: head of the pass-1 loop for part i+1
G_Pass1Progress ==
  /\ gen_active /\ gpc = "p1_loop" /\ i < num_texts
  /\ Yield([Ev("pass1_progress") EXCEPT !.current = i + 1, !.total = num_texts])
  /\ gpc' = "p1_read"
  /\ UNCHANGED <<analyzer, inputs, pstate, locals, workerv, guiv, window, session, cpc, logs>>

\* Variant of G_ReadBlank in which a failed read ends the run.
G_ReadBlank_Fatal ==
  /\ gen_active /\ gpc = "p1_read"
  /\ ReadFile(docs[i + 1]).blank
  /\ read_log' = Append(read_log, i + 1)
  /\ Raise("OSError") /\ gpc' = "raised"
  /\ UNCHANGED <<analyzer, inputs, pstate, locals, workerv, guiv, window, session, cpc, tokenizer_log,
                 engine_log>>

\* lines 166-176: the file is blank or could not be read
G_ReadBlank ==
  /\ gen_active /\ gpc = "p1_read"
  /\ ReadFile(docs[i + 1]).blank
  /\ read_log' = Append(read_log, i + 1)
  /\ per_text_word_pos_counts_list' =
       Append(per_text_word_pos_counts_list, Counter(<<>>))
  /\ corpus_part_sizes_words' = [corpus_part_sizes_words EXCEPT ![i + 1] = 0]
  /\ Yield(Ev("warning"))
  /\ i' = i + 1 /\ gpc' = "p1_loop"
  /\ UNCHANGED <<analyzer, inputs, num_texts, total_corpus_words, master_vocabulary_data,
                 vocab_order, text_idx, processed_count,
                 all_word_metrics_results, workerv, guiv, window, session, cpc,
                 tokenizer_log, engine_log>>

\* Variant of G_Tokenize that records the number of different units of the
\* text as its size.
G_Tokenize_SizeOfTypes ==
  /\ gen_active /\ gpc = "p1_read"
  /\ ~ReadFile(docs[i + 1]).blank
  /\ IsReady
  /\ LET r == ProcessTextChinese(ReadFile(docs[i + 1]).toks, exclude_stop_words)
     IN /\ corpus_part_sizes_words' =
             [corpus_part_sizes_words EXCEPT
                ![i + 1] = Cardinality(Range(r.units))]
        /\ per_text_word_pos_counts_list' =
             Append(per_text_word_pos_counts_list, Counter(r.units))
        /\ tokenizer_log' =
             Append(tokenizer_log,
                    [part |-> i + 1, units |-> Len(r.units), ok |-> TRUE])
  /\ read_log' = Append(read_log, i + 1)
  /\ i' = i + 1 /\ gpc' = "p1_loop"
  /\ UNCHANGED <<analyzer, inputs, num_texts, total_corpus_words, master_vocabulary_data,
                 vocab_order, text_idx, processed_count,
                 all_word_metrics_results, genv, workerv, guiv, window, session, cpc,
                 engine_log>>

\* lines 166-167, 178-185: the text is tokenized and counted
G_Tokenize ==
  /\ gen_active /\ gpc = "p1_read"
  /\ ~ReadFile(docs[i + 1]).blank
  /\ IsReady
  /\ LET r == ProcessTextChinese(ReadFile(docs[i + 1]).toks, exclude_stop_words)
     IN /\ corpus_part_sizes_words' =
             [corpus_part_sizes_words EXCEPT ![i + 1] = r.size]
        /\ per_text_word_pos_counts_list' =
             Append(per_text_word_pos_counts_list, Counter(r.units))
        /\ tokenizer_log' =
             Append(tokenizer_log,
                    [part |-> i + 1, units |-> Len(r.units), ok |-> TRUE])
  /\ read_log' = Append(read_log, i + 1)
  /\ i' = i + 1 /\ gpc' = "p1_loop"
  /\ UNCHANGED <<analyzer, inputs, num_texts, total_corpus_words, master_vocabulary_data,
                 vocab_order, text_idx, processed_count,
                 all_word_metrics_results, genv, workerv, guiv, window, session, cpc,
                 engine_log>>

\* Variant of G_TokenizeRaises in which the failure is caught and the part
\* is treated like an unreadable file.
G_TokenizeRaises_Swallowed ==
  /\ gen_active /\ gpc = "p1_read"
  /\ ~ReadFile(docs[i + 1]).blank
  /\ read_log' = Append(read_log, i + 1)
  /\ tokenizer_log' =
       Append(tokenizer_log, [part |-> i + 1, units |-> 0, ok |-> FALSE])
  /\ per_text_word_pos_counts_list' =
       Append(per_text_word_pos_counts_list, Counter(<<>>))
  /\ corpus_part_sizes_words' = [corpus_part_sizes_words EXCEPT ![i + 1] = 0]
  /\ Yield(Ev("warning"))
  /\ i' = i + 1 /\ gpc' = "p1_loop"
  /\ UNCHANGED <<analyzer, inputs, num_texts, total_corpus_words, master_vocabulary_data,
                 vocab_order, text_idx, processed_count,
                 all_word_metrics_results, workerv, guiv, window, session, cpc, engine_log>>

\* lines 178-182 with nlp_processors.py 177-178 and 223-229: the tokenizer
\* raises RuntimeError, because it is not ready or because LTP failed on the
\* text; nothing in process_corpus catches it.
G_TokenizeRaises ==
  /\ gen_active /\ gpc = "p1_read"
  /\ ~ReadFile(docs[i + 1]).blank
  /\ read_log' = Append(read_log, i + 1)
  /\ tokenizer_log' =
       Append(tokenizer_log, [part |-> i + 1, units |-> 0, ok |-> FALSE])
  /\ Raise("RuntimeError") /\ gpc' = "raised"
  /\ UNCHANGED <<analyzer, inputs, pstate, locals, workerv, guiv, window, session, cpc, engine_log>>

\* lines 187-191
G_Pass1Complete ==
  /\ gen_active /\ gpc = "p1_loop" /\ i = num_texts
  /\ Yield(Ev("pass1_complete")) /\ gpc' = "p1_total"
  /\ UNCHANGED <<analyzer, inputs, pstate, locals, workerv, guiv, window, session, cpc, logs>>

\* Variant of G_ZeroSize without the size test: pass 2 starts regardless.
G_ZeroSize_Unchecked ==
  /\ gen_active /\ gpc = "p1_total"
  /\ SeqSum(corpus_part_sizes_words) < 1
  /\ total_corpus_words' = SeqSum(corpus_part_sizes_words)
  /\ Yield(Ev("status")) /\ gpc' = "p2_build"
  /\ UNCHANGED <<analyzer, inputs, num_texts, corpus_part_sizes_words,
                 master_vocabulary_data, vocab_order, locals, workerv, guiv, window, session,
                 cpc, logs>>

\* lines 193-206: the corpus has no tokens
G_ZeroSize ==
  /\ gen_active /\ gpc = "p1_total"
  /\ SeqSum(corpus_part_sizes_words) < 1
  /\ total_corpus_words' = SeqSum(corpus_part_sizes_words)
  /\ IF yield_progress
       THEN Suspend(Ev("status")) /\ gpc' = "empty_final"
       ELSE Return(TRUE, <<>>) /\ gpc' = "done"
  /\ UNCHANGED <<analyzer, inputs, num_texts, corpus_part_sizes_words,
                 master_vocabulary_data, vocab_order, locals, workerv, guiv, window, session,
                 cpc, logs>>

\* lines 193-194, 208-212: the corpus has tokens, announce pass 2
G_Pass2Status ==
  /\ gen_active /\ gpc = "p1_total"
  /\ ~(SeqSum(corpus_part_sizes_words) < 1)
  /\ total_corpus_words' = SeqSum(corpus_part_sizes_words)
  /\ Yield(Ev("status")) /\ gpc' = "p2_build"
  /\ UNCHANGED <<analyzer, inputs, num_texts, corpus_part_sizes_words,
                 master_vocabulary_data, vocab_order, locals, workerv, guiv, window, session,
                 cpc, logs>>


\* Variant of AggregateText that assigns the total instead of adding to it.
AggregateText_Overwrite(mvd, counts, idx) ==
  [u \in DOMAIN mvd |->
     IF u \in DOMAIN counts
       THEN [f_total |-> counts[u],
             v_per_text |-> [mvd[u].v_per_text EXCEPT ![idx] = counts[u]]]
       ELSE mvd[u]]

\* lines 224-230, for one text: add its counts to the vocabulary
AggregateText(mvd, counts, idx) ==
  [u \in DOMAIN mvd |->
     IF u \in DOMAIN counts
       THEN [f_total |-> mvd[u].f_total + counts[u],
             v_per_text |-> [mvd[u].v_per_text EXCEPT ![idx] = counts[u]]]
       ELSE mvd[u]]

\* lines 214-222: one zeroed entry per unit seen in some text is stored in
\* the dictionary, which line 133 has emptied.  The units are inserted in
\* the iteration order of a Python set, which is arbitrary; a key already
\* in the dictionary keeps its place.
G_Phase2Build ==
  /\ gen_active /\ gpc = "p2_build"
  /\ LET all_unique_word_pos_units ==
           UNION { DOMAIN per_text_word_pos_counts_list[k] :
                     k \in DOMAIN per_text_word_pos_counts_list }
     IN /\ vocab_order' \in
             { vocab_order \o o :
                 o \in Orderings(all_unique_word_pos_units
                                   \ DOMAIN master_vocabulary_data) }
        /\ master_vocabulary_data' =
             [u \in DOMAIN master_vocabulary_data
                      \cup all_unique_word_pos_units |->
                IF u \in all_unique_word_pos_units
                  THEN [f_total |-> 0, v_per_text |-> Zeros(num_texts)]
                  ELSE master_vocabulary_data[u]]
  /\ text_idx' = 0
  /\ gpc' = "p2_aggregate"
  /\ UNCHANGED <<analyzer, inputs, num_texts, corpus_part_sizes_words, total_corpus_words,
                 i, per_text_word_pos_counts_list, processed_count,
                 all_word_metrics_results, genv, workerv, guiv, window, session, cpc, logs>>

\* lines 224-230: one iteration of the outer loop
G_Phase2Aggregate ==
  /\ gen_active /\ gpc = "p2_aggregate"
  /\ text_idx < Len(per_text_word_pos_counts_list)
  /\ master_vocabulary_data' =
       AggregateText(master_vocabulary_data,
                     per_text_word_pos_counts_list[text_idx + 1], text_idx + 1)
  /\ text_idx' = text_idx + 1
  /\ UNCHANGED <<analyzer, inputs, num_texts, corpus_part_sizes_words, total_corpus_words,
                 vocab_order, i, per_text_word_pos_counts_list, processed_count,
                 all_word_metrics_results, gpc, genv, workerv, guiv, window, session, cpc, logs>>

\* Variant of G_Pass2Complete that leaves the loop one text early.
G_Pass2Complete_Early ==
  /\ gen_active /\ gpc = "p2_aggregate"
  /\ text_idx + 1 >= Len(per_text_word_pos_counts_list)
  /\ Yield(Ev("pass2_complete")) /\ gpc' = "p3_status"
  /\ UNCHANGED <<analyzer, inputs, pstate, locals, workerv, guiv, window, session, cpc, logs>>

\* lines 232-236
G_Pass2Complete ==
  /\ gen_active /\ gpc = "p2_aggregate"
  /\ text_idx = Len(per_text_word_pos_counts_list)
  /\ Yield(Ev("pass2_complete")) /\ gpc' = "p3_status"
  /\ UNCHANGED <<analyzer, inputs, pstate, locals, workerv, guiv, window, session, cpc, logs>>

\* lines 238-248
G_Pass3Status ==
  /\ gen_active /\ gpc = "p3_status"
  /\ all_word_metrics_results' = <<>>
  /\ processed_count' = 0
  /\ Yield(Ev("status")) /\ gpc' = "p3_loop"
  /\ UNCHANGED <<analyzer, inputs, pstate, i, per_text_word_pos_counts_list, text_idx,
                 workerv, guiv, window, session, cpc, logs>>

\* Variant of G_Pass3Next whose progress event carries the pass-1 type.
G_Pass3Next_Mislabelled ==
  /\ gen_active /\ gpc = "p3_loop"
  /\ processed_count < Len(vocab_order)
  /\ processed_count' = processed_count + 1
  /\ IF yield_progress /\ ( (processed_count + 1) % ProgressEvery = 0
                            \/ processed_count + 1 = Len(vocab_order) )
       THEN Suspend([Ev("pass1_progress") EXCEPT
                       !.current = processed_count + 1,
                       !.total = Len(vocab_order),
                       !.unit = vocab_order[processed_count + 1]])
       ELSE UNCHANGED genv
  /\ gpc' = "p3_unit"
  /\ UNCHANGED <<analyzer, inputs, pstate, i, per_text_word_pos_counts_list, text_idx,
                 all_word_metrics_results, workerv, guiv, window, session, cpc, logs>>

\* Variant of G_Pass3Next that yields the progress event for the last unit
\* only.
G_Pass3Next_LastOnly ==
  /\ gen_active /\ gpc = "p3_loop"
  /\ processed_count < Len(vocab_order)
  /\ processed_count' = processed_count + 1
  /\ IF yield_progress /\ processed_count + 1 = Len(vocab_order)
       THEN Suspend([Ev("pass3_progress") EXCEPT
                       !.current = processed_count + 1,
                       !.total = Len(vocab_order),
                       !.unit = vocab_order[processed_count + 1]])
       ELSE UNCHANGED genv
  /\ gpc' = "p3_unit"
  /\ UNCHANGED <<analyzer, inputs, pstate, i, per_text_word_pos_counts_list, text_idx,
                 all_word_metrics_results, workerv, guiv, window, session, cpc, logs>>

\* lines 250-281: next unit of the vocabulary, periodic progress event
G_Pass3Next ==
  /\ gen_active /\ gpc = "p3_loop"
  /\ processed_count < Len(vocab_order)
  /\ processed_count' = processed_count + 1
  /\ IF yield_progress /\ ( (processed_count + 1) % ProgressEvery = 0
                            \/ processed_count + 1 = Len(vocab_order) )
       THEN Suspend([Ev("pass3_progress") EXCEPT
                       !.current = processed_count + 1,
                       !.total = Len(vocab_order),
                       !.unit = vocab_order[processed_count + 1]])
       ELSE UNCHANGED genv
  /\ gpc' = "p3_unit"
  /\ UNCHANGED <<analyzer, inputs, pstate, i, per_text_word_pos_counts_list, text_idx,
                 all_word_metrics_results, workerv, guiv, window, session, cpc, logs>>

\* Variant of G_Pass3Compute that hands the unit's own vector to the engine
\* and gets it back divided by the unit's frequency.
G_Pass3Compute_Consumes ==
  /\ gen_active /\ gpc = "p3_unit"
  /\ LET unit == vocab_order[processed_count]
         data == master_vocabulary_data[unit]
     IN IF data.f_total < 1
          THEN UNCHANGED <<all_word_metrics_results, engine_log,
                           master_vocabulary_data>>
          ELSE /\ AnalyzerInitError(data.v_per_text, corpus_part_sizes_words,
                                    total_corpus_words) = "none"
               /\ engine_log' = Append(engine_log, [unit |-> unit, ok |-> TRUE])
               /\ all_word_metrics_results' =
                    Append(all_word_metrics_results,
                           [word |-> unit[1], pos |-> unit[2],
                            total_frequency_in_analysis |-> data.f_total,
                            metrics_obj |->
                              calculate_all_metrics(data.v_per_text,
                                                    corpus_part_sizes_words,
                                                    total_corpus_words)])
               /\ master_vocabulary_data' =
                    [master_vocabulary_data EXCEPT
                       ![unit].v_per_text =
                         [k \in DOMAIN data.v_per_text |->
                            data.v_per_text[k] \div data.f_total]]
  /\ gpc' = "p3_loop"
  /\ UNCHANGED <<analyzer, inputs, num_texts, corpus_part_sizes_words,
                 total_corpus_words, vocab_order, i,
                 per_text_word_pos_counts_list, text_idx,
                 processed_count, genv, workerv, guiv, window, session, cpc,
                 read_log, tokenizer_log>>

\* lines 283-305: the unit is skipped (zero frequency) or its metrics are
\* computed and appended to the results
G_Pass3Compute ==
  /\ gen_active /\ gpc = "p3_unit"
  /\ LET unit == vocab_order[processed_count]
         data == master_vocabulary_data[unit]
     IN IF data.f_total < 1
          THEN UNCHANGED <<all_word_metrics_results, engine_log>>
          ELSE /\ AnalyzerInitError(data.v_per_text, corpus_part_sizes_words,
                                    total_corpus_words) = "none"
               /\ engine_log' = Append(engine_log, [unit |-> unit, ok |-> TRUE])
               /\ all_word_metrics_results' =
                    Append(all_word_metrics_results,
                           [word |-> unit[1], pos |-> unit[2],
                            total_frequency_in_analysis |-> data.f_total,
                            metrics_obj |->
                              calculate_all_metrics(data.v_per_text,
                                                    corpus_part_sizes_words,
                                                    total_corpus_words)])
  /\ gpc' = "p3_loop"
  /\ UNCHANGED <<analyzer, inputs, pstate, i, per_text_word_pos_counts_list, text_idx,
                 processed_count, genv, workerv, guiv, window, session, cpc, read_log,
                 tokenizer_log>>

\* Variant of G_Pass3Error in which the exception is not caught.
G_Pass3Error_Fatal ==
  /\ gen_active /\ gpc = "p3_unit"
  /\ LET unit == vocab_order[processed_count]
         data == master_vocabulary_data[unit]
     IN /\ ~(data.f_total < 1)
        /\ engine_log' = Append(engine_log, [unit |-> unit, ok |-> FALSE])
  /\ Raise("Exception") /\ gpc' = "raised"
  /\ UNCHANGED <<analyzer, inputs, pstate, locals, workerv, guiv, window, session, cpc, read_log,
                 tokenizer_log>>

\* lines 289-297, 306-317: the analyzer rejects its input (ValueError) or
\* the computation raises any other exception; the unit gets an error event
\* and no result
G_Pass3Error ==
  /\ gen_active /\ gpc = "p3_unit"
  /\ LET unit == vocab_order[processed_count]
         data == master_vocabulary_data[unit]
     IN /\ ~(data.f_total < 1)
        /\ engine_log' = Append(engine_log, [unit |-> unit, ok |-> FALSE])
        /\ Yield([Ev("error") EXCEPT !.unit = unit])
  /\ gpc' = "p3_loop"
  /\ UNCHANGED <<analyzer, inputs, pstate, locals, workerv, guiv, window, session, cpc, read_log,
                 tokenizer_log>>

\* lines 319-328: after the last unit
G_AnalysisComplete ==
  /\ gen_active /\ gpc = "p3_loop"
  /\ processed_count = Len(vocab_order)
  /\ IF yield_progress
       THEN Suspend(Ev("analysis_complete")) /\ gpc' = "final"
       ELSE Return(TRUE, all_word_metrics_results) /\ gpc' = "done"
  /\ UNCHANGED <<analyzer, inputs, pstate, locals, workerv, guiv, window, session, cpc, logs>>

\* line 325
G_FinalResults ==
  /\ gen_active /\ gpc = "final"
  /\ Suspend([Ev("final_results") EXCEPT !.data = all_word_metrics_results])
  /\ gpc' = "final_return"
  /\ UNCHANGED <<analyzer, inputs, pstate, locals, workerv, guiv, window, session, cpc, logs>>

Generator ==
  \/ G_BadArg \/ G_BadArgReturn \/ G_NoFiles \/ G_EmptyFinal \/ G_FinalReturn
  \/ G_Reset \/ G_Pass1Progress \/ G_ReadBlank \/ G_Tokenize
  \/ G_TokenizeRaises \/ G_Pass1Complete \/ G_ZeroSize \/ G_Pass2Status
  \/ G_Phase2Build \/ G_Phase2Aggregate \/ G_Pass2Complete \/ G_Pass3Status
  \/ G_Pass3Next \/ G_Pass3Compute \/ G_Pass3Error \/ G_AnalysisComplete
  \/ G_FinalResults


\* ------------------------------------------------ OptimizedAnalysisWorker
Sig(name) == [sig |-> name, msg |-> "", data |-> <<>>]

\* _emit_performance_update: nothing is emitted once _should_stop is set
\* (the flag is read without the mutex; isRunning() holds inside run()).
EmitPerformanceUpdate(sigs) ==
  IF should_stop THEN sigs ELSE Append(sigs, Sig("performance_update"))

\* _handle_progress_data: the signals emitted for one pipeline event
HandleProgressData(sigs, ev) ==
  IF ev.type = "pass1_progress"
    THEN EmitPerformanceUpdate(Append(sigs, Sig("progress_text")))
  ELSE IF ev.type = "pass3_progress"
    THEN EmitPerformanceUpdate(Append(sigs, Sig("progress_vocab")))
  ELSE IF ev.type \in {"status", "pass1_complete", "pass2_complete"}
    THEN Append(sigs, Sig("status_update"))
  ELSE IF ev.type = "analysis_complete"
    THEN EmitPerformanceUpdate(Append(sigs, Sig("status_update")))
  ELSE IF ev.type = "warning"
    THEN Append(sigs, Sig("warning"))
  ELSE IF ev.type = "error"
    THEN Append(sigs, [Sig("error") EXCEPT !.msg = "Pipeline error"])
  ELSE sigs

\* One access to _should_stop under the mutex: by stop() ("set") or by
\* the test that follows each event in _process_corpus_optimized ("read",
\* with the value seen), together with the event the worker holds, the
\* parts read, the units handed to the metric engine and the results
\* emitted by then.
FlagAccess(op, seen) ==
  [op |-> op, seen |-> seen, event |-> pending.type,
   current |-> pending.current, parts_read |-> Len(read_log),
   units_done |-> Len(engine_log),
   results |-> Len(SelectSeq(signals, LAMBDA x : x.sig = "results_ready"))]

\* run lines 144-146 and _initialize_pipeline lines 187-189
W_InitCheck ==
  /\ wpc = "run" /\ mutex = "free"
  /\ wpc' = IF should_stop THEN "except" ELSE "init"
  /\ UNCHANGED <<analyzer, inputs, pstate, locals, gpc, genv, should_stop, mutex,
                 pipeline, final_results_list, signals, guiv, window, session, cpc, logs>>

\* _initialize_pipeline lines 190-210: RuntimeError when the LTP model did
\* not load, else the pipeline is built
W_Initialize ==
  /\ wpc = "init"
  /\ IF ~ltp
       THEN /\ signals' = Append(signals, Sig("status_update"))
            /\ wpc' = "except"
            /\ UNCHANGED pipeline
       ELSE /\ signals' = EmitPerformanceUpdate(
                            Append(Append(signals, Sig("status_update")),
                                   Sig("status_update")))
            /\ pipeline' = TRUE
            /\ wpc' = "run_check"
  /\ UNCHANGED <<analyzer, inputs, pstate, locals, gpc, genv, should_stop, mutex,
                 final_results_list, guiv, window, session, cpc, logs>>

\* run lines 147-149
W_RunCheck ==
  /\ wpc = "run_check" /\ mutex = "free"
  /\ wpc' = IF should_stop THEN "cleanup" ELSE "call"
  /\ UNCHANGED <<analyzer, inputs, pstate, locals, gpc, genv, should_stop, mutex,
                 pipeline, final_results_list, signals, guiv, window, session, cpc, logs>>

\* _process_corpus_optimized lines 213-220: the generator is created and
\* the for statement calls next() on it
W_Call ==
  /\ wpc = "call" /\ pipeline
  /\ final_results_list' = <<>>
  /\ gpc' = "created"
  /\ gen_active' = TRUE
  /\ wpc' = "next"
  /\ UNCHANGED <<analyzer, inputs, pstate, locals, gen_outcome, events, pending,
                 should_stop, mutex, pipeline, signals, guiv, window, session, cpc, logs>>

\* lines 221-224: after every event the flag is read under the mutex
W_CheckStop ==
  /\ wpc = "next" /\ ~gen_active /\ gen_outcome.kind = "none"
  /\ mutex = "free"
  /\ IF should_stop
       THEN /\ signals' = Append(signals, [Sig("status_update") EXCEPT
                                             !.msg = "Analysis cancelled."])
            /\ wpc' = "cleanup"
       ELSE /\ wpc' = "handle"
            /\ UNCHANGED signals
  /\ flag_log' = Append(flag_log, FlagAccess("read", should_stop))
  /\ UNCHANGED <<analyzer, inputs, pstate, locals, gpc, genv, should_stop, mutex,
                 pipeline, final_results_list, spc, stop_returned, window,
                 session, cpc, logs>>

\* lines 225-233 and _handle_progress_data, then next() again
W_Handle ==
  /\ wpc = "handle"
  /\ signals' = HandleProgressData(signals, pending)
  /\ final_results_list' =
       IF pending.type = "final_results" THEN pending.data
       ELSE final_results_list
  /\ gen_active' = TRUE
  /\ wpc' = "next"
  /\ UNCHANGED <<analyzer, inputs, pstate, locals, gpc, gen_outcome, events, pending,
                 should_stop, mutex, pipeline, guiv, window, session, cpc, logs>>

\* Variant of W_EmitResults that does not read the flag.
W_EmitResults_Unchecked ==
  /\ wpc = "next" /\ ~gen_active /\ gen_outcome.kind = "returned"
  /\ mutex = "free"
  /\ signals' = Append(signals, [Sig("results_ready") EXCEPT
                                   !.data = final_results_list])
  /\ wpc' = "cleanup"
  /\ UNCHANGED <<analyzer, inputs, pstate, locals, gpc, genv, should_stop, mutex,
                 pipeline, final_results_list, guiv, window, session, cpc, logs>>

\* lines 234-236: the generator is exhausted
W_EmitResults ==
  /\ wpc = "next" /\ ~gen_active /\ gen_outcome.kind = "returned"
  /\ mutex = "free"
  /\ signals' = IF ~should_stop
                  THEN Append(signals, [Sig("results_ready") EXCEPT
                                          !.data = final_results_list])
                  ELSE signals
  /\ wpc' = "cleanup"
  /\ UNCHANGED <<analyzer, inputs, pstate, locals, gpc, genv, should_stop, mutex,
                 pipeline, final_results_list, guiv, window, session, cpc, logs>>

\* run lines 151-152 and _handle_error lines 284-286
W_HandleError ==
  /\ \/ wpc = "except"
     \/ wpc = "next" /\ ~gen_active /\ gen_outcome.kind = "raised"
  /\ mutex = "free"
  /\ wpc' = IF should_stop THEN "cleanup" ELSE "report_error"
  /\ UNCHANGED <<analyzer, inputs, pstate, locals, gpc, genv, should_stop, mutex,
                 pipeline, final_results_list, signals, guiv, window, session, cpc, logs>>

\* _handle_error lines 287-295
W_ReportError ==
  /\ wpc = "report_error"
  /\ signals' = Append(Append(signals, [Sig("error") EXCEPT
                                          !.msg = "Analysis error"]),
                       Sig("performance_update"))
  /\ wpc' = "cleanup"
  /\ UNCHANGED <<analyzer, inputs, pstate, locals, gpc, genv, should_stop, mutex,
                 pipeline, final_results_list, guiv, window, session, cpc, logs>>

\* run lines 153-154 and _cleanup
W_Cleanup ==
  /\ wpc = "cleanup"
  /\ pipeline' = FALSE
  /\ wpc' = "finished"
  /\ UNCHANGED <<analyzer, inputs, pstate, locals, gpc, genv, should_stop, mutex,
                 final_results_list, signals, guiv, window, session, cpc, logs>>

Worker ==
  \/ W_InitCheck \/ W_Initialize \/ W_RunCheck \/ W_Call \/ W_CheckStop
  \/ W_Handle \/ W_EmitResults \/ W_HandleError \/ W_ReportError \/ W_Cleanup

\* -------------------------------------------- stop(), on the GUI thread
\* line 301: the mutex is taken.  The GUI calls stop() on a worker that is
\* running, from the cancel button, which it then disables (lines 741-743),
\* or when the window closes (lines 959-966); a second call would find the
\* flag set and change nothing.
Stop_Lock ==
  /\ wpc \notin {"off", "finished"} /\ spc = "idle" /\ ~stop_returned
  /\ mutex = "free"
  /\ mutex' = "gui"
  /\ spc' = "locked"
  /\ UNCHANGED <<analyzer, inputs, pstate, locals, gpc, genv, wpc, should_stop, pipeline,
                 final_results_list, signals, stop_returned, flag_log, window,
                 session, cpc, logs>>

\* lines 302-306: the flag is set and the mutex released.  The pipeline has
\* no stop_processing method, so nothing else happens.
Stop_Body ==
  /\ spc = "locked"
  /\ signals' = IF ~should_stop
                  THEN Append(signals, [Sig("status_update") EXCEPT
                                          !.msg = "Cancelling analysis..."])
                  ELSE signals
  /\ should_stop' = TRUE
  /\ mutex' = "free"
  /\ spc' = "idle"
  /\ stop_returned' = TRUE
  /\ flag_log' = Append(flag_log, FlagAccess("set", TRUE))
  /\ UNCHANGED <<analyzer, inputs, pstate, locals, gpc, genv, wpc, pipeline,
                 final_results_list, window, session, cpc, logs>>

Gui == Stop_Lock \/ Stop_Body

\* ------------------------------- a direct caller, yield_progress=False
\* process_corpus(...) only creates the generator object
C_Call ==
  /\ cpc = "call"
  /\ gpc' = "created"
  /\ cpc' = "has_generator"
  /\ UNCHANGED <<analyzer, inputs, pstate, locals, genv, workerv, guiv, window, session, logs>>

\* next() on the generator object runs the body
C_Next ==
  /\ cpc = "has_generator"
  /\ gen_active' = TRUE
  /\ cpc' = "next"
  /\ UNCHANGED <<analyzer, inputs, pstate, locals, gpc, gen_outcome, events, pending,
                 workerv, guiv, window, session, logs>>

\* next() ends with StopIteration(value) or with the exception raised
C_Done ==
  /\ cpc = "next" /\ ~gen_active /\ gen_outcome.kind # "none"
  /\ cpc' = gen_outcome.kind
  /\ UNCHANGED <<analyzer, inputs, pstate, locals, gpc, genv, workerv, guiv, window, session, logs>>

Caller == C_Call \/ C_Next \/ C_Done

Next == Generator \/ Worker \/ Gui \/ Caller

Spec == Init /\ [][Next]_vars


\* --------------------------------------------- EnhancedMainWindow (GUI)
\* BASE_METADATA_KEYS and METRIC_DISPLAY_ORDER: the keys of the columns of
\* the results table, which are the columns of the export
BASE_METADATA_KEYS ==
  <<"word", "pos", "num_chars", "total_frequency_in_analysis">>

METRIC_DISPLAY_ORDER ==
  <<"mean_text_frequency_FT", "pervasiveness_PT", "evenness_DA",
    "ft_adjusted_by_DA", "ft_adjusted_by_PT", "range", "dp", "dp_norm",
    "kl_divergence", "jsd_dispersion", "hellinger_dispersion", "juilland_d",
    "carroll_d2", "roschengren_s_adj", "sd_population", "vc_population">>

METRIC_DISPLAY_LABELS_EN ==
  [word |-> "Word", pos |-> "POS", num_chars |-> "Chars",
   total_frequency_in_analysis |-> "Total Freq (Analyzed)",
   range |-> "Range", sd_population |-> "SD Population",
   vc_population |-> "VC Population", juilland_d |-> "Juilland's D",
   carroll_d2 |-> "Carroll's D2", roschengren_s_adj |-> "Rosengren's S",
   dp |-> "DP", dp_norm |-> "DP_norm", kl_divergence |-> "KL Divergence",
   jsd_dispersion |-> "JSD Dispersion",
   hellinger_dispersion |-> "Hellinger Dispersion",
   mean_text_frequency_FT |-> "Mean Text Freq (FT)",
   pervasiveness_PT |-> "Pervasiveness (PT)", evenness_DA |-> "Evenness (DA)",
   ft_adjusted_by_PT |-> "FT * PT", ft_adjusted_by_DA |-> "FT * DA"]

\* _setup_table_model: the headers of the table model
model_headers == BASE_METADATA_KEYS \o METRIC_DISPLAY_ORDER

\* DispersionMetrics.__init__ stores range_val as the attribute `range`
\* and every other argument under its own name.
DispersionMetrics(m) ==
  [range |-> m.range_val, sd_population |-> m.sd_population,
   vc_population |-> m.vc_population, juilland_d |-> m.juilland_d,
   carroll_d2 |-> m.carroll_d2, roschengren_s_adj |-> m.roschengren_s_adj,
   dp |-> m.dp, dp_norm |-> m.dp_norm, kl_divergence |-> m.kl_divergence,
   jsd_dispersion |-> m.jsd_dispersion,
   hellinger_dispersion |-> m.hellinger_dispersion,
   mean_text_frequency_FT |-> m.mean_text_frequency_FT,
   pervasiveness_PT |-> m.pervasiveness_PT, evenness_DA |-> m.evenness_DA,
   ft_adjusted_by_PT |-> m.ft_adjusted_by_PT,
   ft_adjusted_by_DA |-> m.ft_adjusted_by_DA]

\* One cell of the export: the text written is the value under the format
\* named: "%.6f" for a finite float, str() for an infinite one and for the
\* metadata, the value as it is for the integer Range.
Cell(fmt, val) == [fmt |-> fmt, val |-> val]

\* _write_csv_file lines 851-866: the cell of one entry under one key
CsvCell(entry, key) ==
  IF key = "num_chars" THEN Cell("str", Len(entry.word))
  ELSE IF key \in Range(BASE_METADATA_KEYS) THEN Cell("str", entry[key])
  ELSE IF key \in DOMAIN DispersionMetrics(entry.metrics_obj)
    THEN LET value == DispersionMetrics(entry.metrics_obj)[key]
         IN IF key = "range" THEN Cell("int", value)
            ELSE IF "kind" \in DOMAIN value /\ value.kind = "inf"
              THEN Cell("str", value)
            ELSE Cell("%.6f", value)
  ELSE Cell("str", "")

\* Variant of WriteCsvFile whose rows hold the pervasiveness under the
\* header of the mean text frequency and the reverse.
WriteCsvFile_SwappedColumns(data) ==
  IF data = <<>> THEN <<>>
  ELSE <<[k \in DOMAIN model_headers |->
            METRIC_DISPLAY_LABELS_EN[model_headers[k]]]>> \o
       [r \in DOMAIN data |->
          [k \in DOMAIN model_headers |->
             CsvCell(data[r],
                     IF model_headers[k] = "mean_text_frequency_FT"
                       THEN "pervasiveness_PT"
                     ELSE IF model_headers[k] = "pervasiveness_PT"
                       THEN "mean_text_frequency_FT"
                     ELSE model_headers[k])]]

\* _write_csv_file: nothing for an empty list, else the row of the header
\* labels and one row for each entry, its cells in the order of the headers
WriteCsvFile(data) ==
  IF data = <<>> THEN <<>>
  ELSE <<[k \in DOMAIN model_headers |->
            METRIC_DISPLAY_LABELS_EN[model_headers[k]]]>> \o
       [r \in DOMAIN data |->
          [k \in DOMAIN model_headers |-> CsvCell(data[r], model_headers[k])]]

\* The slot connected to one of the worker's signals runs on the GUI thread
\* (queued connection), the signals in the order of their emission:
\* _handle_analysis_finished stores the results, _handle_analysis_error
\* ends with _reset_ui_after_thread_actions, the other slots only display.
Win_Deliver ==
  /\ delivered < Len(signals)
  /\ delivered' = delivered + 1
  /\ LET sg == signals[delivered + 1]
     IN /\ analysis_results_data' =
             IF sg.sig = "results_ready" THEN sg.data
             ELSE analysis_results_data
        /\ start_button_enabled' =
             IF sg.sig = "error" THEN TRUE ELSE start_button_enabled
        /\ cancel_button_enabled' =
             IF sg.sig = "error" THEN FALSE ELSE cancel_button_enabled
  /\ UNCHANGED <<analyzer, inputs, pstate, locals, gpc, genv, workerv, guiv,
                 finished_handled, extra_workers, csv_file, session, cpc,
                 logs>>

\* _handle_thread_finished: QThread.finished, emitted when run() has
\* returned and handled after the worker's own signals
Win_ThreadFinished ==
  /\ wpc = "finished" /\ delivered = Len(signals) /\ ~finished_handled
  /\ finished_handled' = TRUE
  /\ start_button_enabled' = TRUE
  /\ cancel_button_enabled' = FALSE
  /\ UNCHANGED <<analyzer, inputs, pstate, locals, gpc, genv, workerv, guiv,
                 analysis_results_data, delivered, extra_workers, csv_file,
                 session, cpc, logs>>

\* _start_analysis, from a click on the enabled start button:
\* _prepare_ui_for_analysis_start, then a new worker is created and started
\* (what that worker does is not followed; one such click is considered)
Win_StartClick ==
  /\ start_button_enabled /\ extra_workers = 0
  /\ start_button_enabled' = FALSE
  /\ cancel_button_enabled' = TRUE
  /\ analysis_results_data' = <<>>
  /\ extra_workers' = extra_workers + 1
  /\ UNCHANGED <<analyzer, inputs, pstate, locals, gpc, genv, workerv, guiv,
                 delivered, finished_handled, csv_file, session, cpc, logs>>

\* _export_results(export_all=True) with a file chosen: _write_csv_file
Win_Export ==
  /\ analysis_results_data # <<>> /\ csv_file = <<>>
  /\ csv_file' = WriteCsvFile(analysis_results_data)
  /\ UNCHANGED <<analyzer, inputs, pstate, locals, gpc, genv, workerv, guiv,
                 start_button_enabled, cancel_button_enabled,
                 analysis_results_data, delivered, finished_handled,
                 extra_workers, session, cpc, logs>>

Window == Win_Deliver \/ Win_ThreadFinished \/ Win_StartClick \/ Win_Export

\* The window with the worker it has just started, on a corpus directory of
\* at most one file: every run is driven by the worker, and stop() reaches
\* that worker as long as analysis_thread refers to it.
GuiInit == Init /\ yield_progress /\ Len(docs) <= 1 /\ stnsplit = ltp

GuiNext ==
  \/ Generator \/ Worker \/ (extra_workers = 0 /\ Gui) \/ Window

GuiSpec == GuiInit /\ [][GuiNext]_vars

\* ------------------------------------- phase 3 on a large vocabulary
\* The vocabulary sizes considered: one unit, one more than a progress
\* interval, and MaxBatches whole intervals.
Pass3Vocabularies == {1, ProgressEvery + 1, MaxBatches * ProgressEvery}

\* The units of a file whose n tokens are n different words.
DistinctUnits(n) == [k \in 1..n |-> <<ToString(k), "n">>]

\* A run of the worker on one file of n different words, at the moment the
\* worker has handled pass2_complete and called next() again: phases 1 and
\* 2 are done, the flag was read after each of the five events so far and
\* stop() was not called.
Pass3State(n) ==
  /\ arg_ok = TRUE /\ yield_progress = TRUE /\ exclude_stop_words = FALSE
  /\ ltp = TRUE /\ stnsplit = TRUE
  /\ docs = <<[kind |-> "text", toks |-> DistinctUnits(n)]>>
  /\ num_texts = 1 /\ corpus_part_sizes_words = <<n>>
  /\ total_corpus_words = n
  /\ master_vocabulary_data =
       [u \in Range(DistinctUnits(n)) |-> [f_total |-> 1, v_per_text |-> <<1>>]]
  /\ vocab_order = DistinctUnits(n)
  /\ gpc = "p3_status" /\ i = 1
  /\ per_text_word_pos_counts_list = <<[u \in Range(DistinctUnits(n)) |-> 1]>>
  /\ text_idx = 1 /\ processed_count = 0 /\ all_word_metrics_results = <<>>
  /\ gen_active = TRUE /\ gen_outcome = NotFinished
  /\ events = <<Ev("status"),
                [Ev("pass1_progress") EXCEPT !.current = 1, !.total = 1],
                Ev("pass1_complete"), Ev("status"), Ev("pass2_complete")>>
  /\ pending = Ev("pass2_complete")
  /\ wpc = "next" /\ should_stop = FALSE /\ mutex = "free"
  /\ pipeline = TRUE /\ final_results_list = <<>>
  /\ signals = <<Sig("status_update"), Sig("status_update"),
                 Sig("performance_update"), Sig("status_update"),
                 Sig("progress_text"), Sig("performance_update"),
                 Sig("status_update"), Sig("status_update"),
                 Sig("status_update")>>
  /\ spc = "idle" /\ stop_returned = FALSE
  /\ flag_log =
       [k \in 1..5 |->
          [op |-> "read", seen |-> FALSE, event |-> events[k].type,
           current |-> events[k].current,
           parts_read |-> IF k <= 2 THEN 0 ELSE 1,
           units_done |-> 0, results |-> 0]]
  /\ start_button_enabled = FALSE /\ cancel_button_enabled = TRUE
  /\ analysis_results_data = <<>> /\ delivered = 0
  /\ finished_handled = FALSE /\ extra_workers = 0 /\ csv_file = <<>>
  /\ run_no = 1
  /\ cpc = "off"
  /\ read_log = <<1>>
  /\ tokenizer_log = <<[part |-> 1, units |-> n, ok |-> TRUE]>>
  /\ engine_log = <<>>
  /\ an_pc = "off" /\ an_v = <<>> /\ an_sizes = <<>> /\ an_T = 0
  /\ an_error = "none" /\ an_self = <<>> /\ an_metrics = <<>>

Pass3Init == \E n \in Pass3Vocabularies : Pass3State(n)

\* Phase 3 and what the worker and stop() do during it; of the failures of
\* the engine, the one on the first unit.
Pass3Next ==
  \/ G_Pass3Status \/ G_Pass3Next \/ G_Pass3Compute
  \/ (processed_count = 1 /\ G_Pass3Error)
  \/ G_AnalysisComplete \/ G_FinalResults \/ G_FinalReturn
  \/ W_CheckStop \/ W_Handle \/ W_EmitResults \/ W_Cleanup
  \/ Stop_Lock \/ Stop_Body

Pass3Spec == Pass3Init /\ [][Pass3Next]_vars

\* ------------------------- several runs on one ChineseCorpusPipeline
\* The files of the corpora of a session: an unreadable or blank file, a
\* file of one word, a file of a word and a stopword.
SessionDocuments ==
  { [kind |-> "empty", toks |-> <<>>],
    [kind |-> "text", toks |-> << <<"w", "n">> >>],
    [kind |-> "text", toks |-> << <<"w", "n">>, <<"de", "u">> >>] }

SessionCorpora == SeqsUpTo(SessionDocuments, MaxParts)

\* A pipeline just constructed, and a caller about to call process_corpus
\* on it for the first time; no worker and no window exist.
SessionInit ==
  /\ arg_ok \in BOOLEAN
  /\ docs \in SessionCorpora
  /\ yield_progress \in BOOLEAN
  /\ exclude_stop_words \in BOOLEAN
  /\ ltp \in BOOLEAN /\ stnsplit = ltp
  /\ (~arg_ok => docs = <<>>)
  /\ num_texts = 0 /\ corpus_part_sizes_words = <<>>
  /\ total_corpus_words = 0
  /\ master_vocabulary_data = <<>> /\ vocab_order = <<>>
  /\ gpc = "none" /\ i = 0 /\ per_text_word_pos_counts_list = <<>>
  /\ text_idx = 0 /\ processed_count = 0 /\ all_word_metrics_results = <<>>
  /\ gen_active = FALSE /\ gen_outcome = NotFinished
  /\ events = <<>> /\ pending = NoEvent
  /\ wpc = "off" /\ should_stop = FALSE /\ mutex = "free"
  /\ pipeline = TRUE /\ final_results_list = <<>> /\ signals = <<>>
  /\ spc = "idle" /\ stop_returned = FALSE /\ flag_log = <<>>
  /\ start_button_enabled = FALSE /\ cancel_button_enabled = FALSE
  /\ analysis_results_data = <<>> /\ delivered = 0
  /\ finished_handled = FALSE /\ extra_workers = 0 /\ csv_file = <<>>
  /\ run_no = 1
  /\ cpc = "call"
  /\ read_log = <<>> /\ tokenizer_log = <<>> /\ engine_log = <<>>
  /\ an_pc = "off" /\ an_v = <<>> /\ an_sizes = <<>> /\ an_T = 0
  /\ an_error = "none" /\ an_self = <<>> /\ an_metrics = <<>>

\* next() again, after an event was received
S_Resume ==
  /\ cpc = "next" /\ ~gen_active /\ gen_outcome.kind = "none"
  /\ gen_active' = TRUE
  /\ UNCHANGED <<analyzer, inputs, pstate, locals, gpc, gen_outcome, events,
                 pending, workerv, guiv, window, session, cpc, logs>>

\* The caller drops the generator at an event (a cancelled run): the body
\* is closed at its yield, where no handler and no finally clause runs.
S_Abandon ==
  /\ cpc = "next" /\ ~gen_active /\ gen_outcome.kind = "none"
  /\ cpc' = "abandoned"
  /\ UNCHANGED <<analyzer, inputs, pstate, locals, gpc, genv, workerv, guiv,
                 window, session, logs>>

\* The caller calls process_corpus on the same pipeline again, with another
\* argument: a new generator frame, and the instance state as the earlier
\* run left it.
S_NewRun ==
  /\ cpc \in {"returned", "raised", "abandoned"}
  /\ run_no < MaxRuns
  /\ run_no' = run_no + 1
  /\ arg_ok' \in BOOLEAN
  /\ docs' \in SessionCorpora
  /\ yield_progress' \in BOOLEAN
  /\ (~arg_ok' => docs' = <<>>)
  /\ gpc' = "none" /\ cpc' = "call"
  /\ i' = 0 /\ per_text_word_pos_counts_list' = <<>>
  /\ text_idx' = 0 /\ processed_count' = 0
  /\ all_word_metrics_results' = <<>>
  /\ gen_active' = FALSE /\ gen_outcome' = NotFinished
  /\ events' = <<>> /\ pending' = NoEvent
  /\ read_log' = <<>> /\ tokenizer_log' = <<>> /\ engine_log' = <<>>
  /\ UNCHANGED <<analyzer, exclude_stop_words, ltp, stnsplit, pstate,
                 workerv, guiv, window>>

\* The runs of a session: the tokenizer fails exactly when it is not ready
\* and the metric engine does not fail, so that a run is determined by its
\* input.
SessionNext ==
  \/ G_BadArg \/ G_BadArgReturn \/ G_NoFiles \/ G_EmptyFinal \/ G_FinalReturn
  \/ G_Reset \/ G_Pass1Progress \/ G_ReadBlank \/ G_Tokenize
  \/ (~IsReady /\ G_TokenizeRaises)
  \/ G_Pass1Complete \/ G_ZeroSize \/ G_Pass2Status
  \/ G_Phase2Build \/ G_Phase2Aggregate \/ G_Pass2Complete \/ G_Pass3Status
  \/ G_Pass3Next \/ G_Pass3Compute \/ G_AnalysisComplete \/ G_FinalResults
  \/ C_Call \/ C_Next \/ C_Done \/ S_Resume \/ S_Abandon \/ S_NewRun

SessionSpec == SessionInit /\ [][SessionNext]_vars

\* ------------------------------- a caller that builds an analyzer itself
\* Scenario A of the metric engine: three parts of 10 tokens, a unit that
\* occurs 5 times in the first and in the third.
ScenarioA == [v |-> <<5, 0, 5>>, sizes |-> <<10, 10, 10>>, T |-> 30]

\* The arguments considered: vectors of at most MaxN entries, which may
\* differ in length, with entries from -1 to MaxCount; a total that is 0,
\* the sum of the sizes, or one more than it; and scenario A.
AnalyzerVectors == SeqsUpTo(-1..MaxCount, MaxN)

AnalyzerTotals(sizes) == {0, SeqSum(sizes), SeqSum(sizes) + 1}

\* No pipeline, worker or generator exists; only the analyzer's caller runs.
EngineInit ==
  /\ arg_ok = TRUE /\ docs = <<>> /\ yield_progress = FALSE
  /\ exclude_stop_words = FALSE /\ ltp = TRUE /\ stnsplit = TRUE
  /\ num_texts = 0 /\ corpus_part_sizes_words = <<>>
  /\ total_corpus_words = 0
  /\ master_vocabulary_data = <<>> /\ vocab_order = <<>>
  /\ gpc = "none" /\ i = 0 /\ per_text_word_pos_counts_list = <<>>
  /\ text_idx = 0 /\ processed_count = 0 /\ all_word_metrics_results = <<>>
  /\ gen_active = FALSE /\ gen_outcome = NotFinished
  /\ events = <<>> /\ pending = NoEvent
  /\ wpc = "off" /\ should_stop = FALSE /\ mutex = "free"
  /\ pipeline = FALSE /\ final_results_list = <<>> /\ signals = <<>>
  /\ spc = "idle" /\ stop_returned = FALSE /\ flag_log = <<>>
  /\ start_button_enabled = FALSE /\ cancel_button_enabled = FALSE
  /\ analysis_results_data = <<>> /\ delivered = 0
  /\ finished_handled = FALSE /\ extra_workers = 0 /\ csv_file = <<>>
  /\ run_no = 0
  /\ cpc = "off"
  /\ read_log = <<>> /\ tokenizer_log = <<>> /\ engine_log = <<>>
  /\ an_pc = "new"
  /\ \/ \E a \in AnalyzerVectors, b \in AnalyzerVectors :
          \E t \in AnalyzerTotals(b) :
            an_v = a /\ an_sizes = b /\ an_T = t
     \/ an_v = ScenarioA.v /\ an_sizes = ScenarioA.sizes /\ an_T = ScenarioA.T
  /\ an_error = "none"
  /\ an_self = <<>>
  /\ an_metrics = <<>>

\* CorpusWordAnalyzer(v, sizes, T): __init__ raises
A_InitRaises ==
  /\ an_pc = "new"
  /\ AnalyzerInitError(an_v, an_sizes, an_T) # "none"
  /\ an_error' = AnalyzerInitError(an_v, an_sizes, an_T)
  /\ an_pc' = "rejected"
  /\ UNCHANGED <<inputs, pstate, locals, gpc, genv, workerv, guiv, window, session, cpc, logs,
                 an_v, an_sizes, an_T, an_self, an_metrics>>

\* The attributes __init__ sets: copies of the arguments (astype(float)
\* and float() make new objects) and the values derived from them.
AnalyzerAttributes(v, sizes, T) ==
  [v |-> v, corpus_part_sizes_words |-> sizes, total_corpus_words |-> T,
   n |-> Len(v), f |-> f_of(v), s |-> s_of(sizes, T), p |-> p_of(v, sizes)]

\* CorpusWordAnalyzer(v, sizes, T): __init__ returns
A_Init ==
  /\ an_pc = "new"
  /\ AnalyzerInitError(an_v, an_sizes, an_T) = "none"
  /\ an_self' = AnalyzerAttributes(an_v, an_sizes, an_T)
  /\ an_pc' = "constructed"
  /\ UNCHANGED <<inputs, pstate, locals, gpc, genv, workerv, guiv, window, session, cpc, logs,
                 an_v, an_sizes, an_T, an_error, an_metrics>>

\* Variant of calculate_all_metrics in which get_dp divides self.v by
\* self.f in place instead of building observed_proportions.
A_CalculateAllMetrics_InPlace ==
  /\ an_pc \in {"constructed", "done"}
  /\ Len(an_metrics) < MaxCalls
  /\ an_metrics' =
       Append(an_metrics,
              calculate_all_metrics(an_self.v, an_self.corpus_part_sizes_words,
                                    an_self.total_corpus_words))
  /\ an_self' = [an_self EXCEPT
                   !.v = [k \in DOMAIN an_self.v |->
                            IF an_self.f > 0 THEN an_self.v[k] \div an_self.f
                            ELSE an_self.v[k]]]
  /\ an_pc' = "done"
  /\ UNCHANGED <<inputs, pstate, locals, gpc, genv, workerv, guiv, window, session, cpc, logs,
                 an_v, an_sizes, an_T, an_error>>

\* analyzer.calculate_all_metrics(): every getter reads the attributes and
\* assigns none of them
A_CalculateAllMetrics ==
  /\ an_pc \in {"constructed", "done"}
  /\ Len(an_metrics) < MaxCalls
  /\ an_metrics' =
       Append(an_metrics,
              calculate_all_metrics(an_self.v, an_self.corpus_part_sizes_words,
                                    an_self.total_corpus_words))
  /\ an_pc' = "done"
  /\ UNCHANGED <<inputs, pstate, locals, gpc, genv, workerv, guiv, window, session, cpc, logs,
                 an_v, an_sizes, an_T, an_error, an_self>>

EngineNext == A_InitRaises \/ A_Init \/ A_CalculateAllMetrics

EngineSpec == EngineInit /\ [][EngineNext]_vars

\* ============================================================ properties
EventTypes == { events[k].type : k \in DOMAIN events }
CountEvents(t) == Cardinality({ k \in DOMAIN events : events[k].type = t })
CountSignals(n) == Cardinality({ k \in DOMAIN signals : signals[k].sig = n })
Finished == gen_outcome.kind # "none"

\* Position of an event type in the phase order (0: not tied to a phase).
PhaseRank(t) ==
  CASE t \in {"pass1_progress", "pass1_complete"} -> 1
    [] t = "pass2_complete" -> 2
    [] t = "pass3_progress" -> 3
    [] t = "analysis_complete" -> 4
    [] t = "final_results" -> 5
    [] OTHER -> 0

\* Phase 2 has been completed in this run.
Phase2Done ==
  \/ gpc \in {"p3_status", "p3_loop", "p3_unit", "final", "final_return"}
  \/ gpc = "done" /\ total_corpus_words > 0

\* C1: in an event-mode run the events are ordered by phase: every
\* pass1_progress and pass1_complete comes before pass2_complete, which
\* comes before every pass3_progress, which come before analysis_complete,
\* which comes before final_results.
C1_EventsOrdered ==
  \A a, b \in DOMAIN events :
    (a < b /\ PhaseRank(events[a].type) > 0 /\ PhaseRank(events[b].type) > 0)
      => /\ PhaseRank(events[a].type) <= PhaseRank(events[b].type)
         /\ PhaseRank(events[a].type) = PhaseRank(events[b].type)
              => events[a].type \in {"pass1_progress", "pass3_progress"}

C1_Witness ==
  /\ gen_outcome.kind = "returned"
  /\ {"pass1_progress", "pass1_complete", "pass2_complete", "pass3_progress",
      "analysis_complete", "final_results"} \subseteq EventTypes

\* C2 as stated: every event-mode run that ends, whatever its input, has
\* emitted exactly one final_results event, and that event is the last one.
C2_ExactlyOneFinalResults ==
  (yield_progress /\ gen_outcome.kind = "returned")
    => /\ CountEvents("final_results") = 1
       /\ events[Len(events)].type = "final_results"

\* C2 amended: at most one final_results event is ever emitted and no event
\* follows it; a run that returns has emitted exactly one, except a run on a
\* malformed argument, which emits a single error event and no
\* final_results.
C2_FinalResultsTerminal ==
  /\ CountEvents("final_results") <= 1
  /\ \A k \in DOMAIN events :
       events[k].type = "final_results" => k = Len(events)
  /\ (yield_progress /\ gen_outcome.kind = "returned")
       => IF arg_ok
            THEN /\ CountEvents("final_results") = 1
                 /\ events[Len(events)].type = "final_results"
            ELSE events = <<Ev("error")>>

C2_Witness ==
  /\ gen_outcome.kind = "returned"
  /\ events # <<>>
  /\ events[Len(events)].type = "final_results"
  /\ events[Len(events)].data # <<>>
  /\ \E k \in DOMAIN events : events[k].type = "error"

\* C3: once stop() has returned without results_ready having been emitted,
\* the worker never emits results_ready.
C3_NoResultsAfterStop ==
  [][ (stop_returned /\ CountSignals("results_ready") = 0)
        => CountSignals("results_ready")' = 0 ]_vars

C3_Witness ==
  /\ wpc = "finished"
  /\ stop_returned
  /\ gen_outcome.kind = "returned"
  /\ final_results_list # <<>>
  /\ CountSignals("results_ready") = 0

\* C4: from pass2_complete to the end of the run every vocabulary unit has
\* f_total equal to the sum of its per-part vector, and the vector has one
\* entry per corpus part, the number of parts being the one fixed at the
\* start of the run.
C4_TotalIsSumOfParts ==
  Phase2Done =>
    /\ num_texts = Len(docs)
    /\ \A u \in DOMAIN master_vocabulary_data :
         /\ master_vocabulary_data[u].f_total =
              SeqSum(master_vocabulary_data[u].v_per_text)
         /\ Len(master_vocabulary_data[u].v_per_text) = num_texts

C4_Witness ==
  /\ Phase2Done /\ Finished
  /\ num_texts = 2
  /\ \E u \in DOMAIN master_vocabulary_data :
       /\ master_vocabulary_data[u].v_per_text[1] > 0
       /\ master_vocabulary_data[u].v_per_text[2] > 0
       /\ master_vocabulary_data[u].f_total > 2

\* Sum over the vocabulary of the frequencies recorded for part k.
PartColumnSum(k) ==
  SeqSum([j \in 1..Len(vocab_order) |->
            master_vocabulary_data[vocab_order[j]].v_per_text[k]])

\* Number of units the tokenizer returned for part k (0 if never called).
UnitsReturned(k) ==
  SeqSum([j \in 1..Len(tokenizer_log) |->
            IF tokenizer_log[j].part = k THEN tokenizer_log[j].units ELSE 0])

\* C5: after phase 2, for every part the frequencies recorded for that part
\* over all units add up to the number of (word, pos) occurrences the
\* tokenizer returned for the part, and to 0 for a blank or unreadable part.
C5_AggregationRoundTrip ==
  Phase2Done =>
    \A k \in 1..num_texts :
      /\ PartColumnSum(k) = UnitsReturned(k)
      /\ ReadFile(docs[k]).blank => PartColumnSum(k) = 0

C5_Witness ==
  /\ Phase2Done /\ Finished
  /\ num_texts = 2
  /\ \E k \in 1..2 : ReadFile(docs[k]).blank
  /\ \E k \in 1..2 : PartColumnSum(k) = 2 /\ Len(vocab_order) = 1


\* Parts among the first n whose file is blank or unreadable.
BlankParts(n) == { k \in 1..n : ReadFile(docs[k]).blank }
TokenizedParts == { tokenizer_log[j].part : j \in DOMAIN tokenizer_log }
TokenizerFailed == \E j \in DOMAIN tokenizer_log : ~tokenizer_log[j].ok

\* C6: a document that cannot be read (or is blank) is handled locally: it
\* yields exactly one warning event, gets size 0 and an empty count, and is
\* never given to the tokenizer; it never ends the run; every other document
\* is processed, and a run whose total size is positive ends with
\* analysis_complete and final_results.
C6_ReadFailureIsolated ==
  /\ yield_progress => CountEvents("warning") = Cardinality(BlankParts(i))
  /\ \A k \in BlankParts(i) :
       /\ corpus_part_sizes_words[k] = 0
       /\ DOMAIN per_text_word_pos_counts_list[k] = {}
       /\ k \notin TokenizedParts
  /\ gen_outcome.kind = "raised" => (~arg_ok \/ TokenizerFailed)
  /\ (gen_outcome.kind = "returned" /\ arg_ok)
       => /\ i = Len(docs)
          /\ \A k \in 1..Len(docs) : k \in BlankParts(i) \/ k \in TokenizedParts
          /\ (yield_progress /\ SeqSum(corpus_part_sizes_words) > 0)
               => /\ CountEvents("analysis_complete") = 1
                  /\ CountEvents("final_results") = 1

C6_Witness ==
  /\ gen_outcome.kind = "returned"
  /\ Len(docs) = 2
  /\ docs[1].kind = "empty"
  /\ CountEvents("warning") = 1
  /\ CountEvents("analysis_complete") = 1
  /\ TokenizedParts = {2}

FailedUnits == { engine_log[j].unit : j \in { k \in DOMAIN engine_log : ~engine_log[k].ok } }
ResultUnits ==
  { <<all_word_metrics_results[j].word, all_word_metrics_results[j].pos>> :
      j \in DOMAIN all_word_metrics_results }
ErrorEventsFor(u) ==
  Cardinality({ k \in DOMAIN events :
                  events[k].type = "error" /\ events[k].unit = u })

\* C7: a unit whose metric computation raises is handled locally: it gets
\* exactly one error event and no entry in final_results, every other unit
\* (all have positive total frequency) is in final_results, and the run
\* still ends with analysis_complete and final_results.
C7_UnitFailureIsolated ==
  /\ \A u \in FailedUnits :
       /\ yield_progress => ErrorEventsFor(u) = 1
       /\ u \notin ResultUnits
  /\ \A u \in DOMAIN master_vocabulary_data :
       (u \notin FailedUnits /\ yield_progress) => ErrorEventsFor(u) = 0
  /\ (Finished /\ FailedUnits # {})
       => /\ gen_outcome.kind = "returned"
          /\ ResultUnits = DOMAIN master_vocabulary_data \ FailedUnits
          /\ Len(all_word_metrics_results) = Cardinality(ResultUnits)
          /\ yield_progress
               => /\ CountEvents("analysis_complete") = 1
                  /\ events[Len(events)] =
                       [Ev("final_results") EXCEPT
                          !.data = all_word_metrics_results]

C7_Witness ==
  /\ gen_outcome.kind = "returned" /\ yield_progress
  /\ Cardinality(FailedUnits) = 1
  /\ Cardinality(ResultUnits) = 1
  /\ engine_log[1].ok = FALSE

\* C8: when the part sizes add up to 0 after phase 1, the run ends with a
\* status message and an empty result; there is no error event, no
\* vocabulary, no pass2_complete, and the metric engine is never invoked.
C8_ZeroSizeAborts ==
  (num_texts > 0 /\ i = num_texts /\ SeqSum(corpus_part_sizes_words) = 0)
    => /\ EventTypes \subseteq
            {"status", "pass1_progress", "warning", "pass1_complete",
             "final_results"}
       /\ DOMAIN master_vocabulary_data = {}
       /\ engine_log = <<>>
       /\ gen_outcome.kind # "raised"
       /\ gen_outcome.kind = "returned"
            => IF yield_progress
                 THEN /\ Len(events) >= 2
                      /\ events[Len(events)] = Ev("final_results")
                      /\ events[Len(events) - 1] = Ev("status")
                 ELSE gen_outcome.has_value /\ gen_outcome.value = <<>>

C8_Witness ==
  /\ gen_outcome.kind = "returned" /\ yield_progress
  /\ num_texts = 2
  /\ docs[1].kind = "text" /\ docs[2].kind = "empty"
  /\ SeqSum(corpus_part_sizes_words) = 0

\* C9: on a malformed argument or when no .txt file is found the run does
\* not start: no file is read, the tokenizer is not invoked, no pass event
\* is emitted, and the condition is reported: an error event, or a status
\* and an empty final_results, in event mode; ValueError, or an empty list,
\* to a direct caller.
C9_ConfigurationErrorStartsNothing ==
  (~arg_ok \/ Len(docs) = 0)
    => /\ read_log = <<>> /\ tokenizer_log = <<>> /\ engine_log = <<>>
       /\ EventTypes \subseteq {"error", "status", "final_results"}
       /\ Finished
            => IF yield_progress
                 THEN /\ gen_outcome.kind = "returned"
                      /\ events = IF arg_ok
                                    THEN <<Ev("status"), Ev("final_results")>>
                                    ELSE <<Ev("error")>>
                 ELSE IF arg_ok
                        THEN gen_outcome = Returned(TRUE, <<>>)
                        ELSE gen_outcome = Raised("ValueError")

C9_Witness ==
  /\ arg_ok /\ Len(docs) = 0 /\ yield_progress
  /\ wpc = "finished"
  /\ CountEvents("final_results") = 1

\* C10 as stated: when the tokenizer raises, the run stops there (no
\* further part, no pass1_complete or later event) and the worker reports
\* an error and no results.
C10_TokenizerFailureReported ==
  TokenizerFailed
    => /\ gen_outcome = Raised("RuntimeError")
       /\ i < num_texts
       /\ EventTypes \subseteq {"status", "pass1_progress", "warning"}
       /\ CountSignals("results_ready") = 0
       /\ wpc = "finished" => CountSignals("error") = 1

\* C10 amended: when the tokenizer raises, the run stops there (no further
\* part, no pass1_complete or later event) and the worker reports no
\* results; it reports an error unless stop() was called before the worker
\* handled the failure, in which case it reports nothing.
C10_TokenizerFailureFatal ==
  TokenizerFailed
    => /\ gen_outcome = Raised("RuntimeError")
       /\ i < num_texts
       /\ tokenizer_log[Len(tokenizer_log)].part = i + 1
       /\ EventTypes \subseteq {"status", "pass1_progress", "warning"}
       /\ CountSignals("results_ready") = 0
       /\ wpc = "finished"
            => /\ CountSignals("error") <= 1
               /\ CountSignals("error") = 0 => should_stop
               /\ \A k \in DOMAIN signals :
                    signals[k].sig = "error"
                      => signals[k].msg = "Analysis error"

C10_Witness ==
  /\ TokenizerFailed
  /\ wpc = "finished"
  /\ Len(tokenizer_log) = 2
  /\ CountSignals("error") = 1
  /\ ~should_stop

\* C11: when the tokenizer is not ready (is_ready() is false) at the start
\* of a run, the run is aborted before any phase begins: no document is
\* read, and no pass1_progress and no warning event is emitted.
C11_NotReadyAbortsBeforePhases ==
  ~IsReady => /\ read_log = <<>>
              /\ CountEvents("pass1_progress") = 0
              /\ CountEvents("warning") = 0

\* Every part has been read and counted, its size recorded, and the total
\* size computed from the sizes.
Phase1Complete ==
  /\ i = num_texts
  /\ Len(per_text_word_pos_counts_list) = num_texts
  /\ Len(corpus_part_sizes_words) = num_texts
  /\ total_corpus_words = SeqSum(corpus_part_sizes_words)
  /\ gpc \in {"p2_build", "p2_aggregate"}

\* The vocabulary holds every unit counted in some part, each with its
\* per-part vector filled from every part's count and with their sum as
\* total frequency.
VocabularyComplete ==
  /\ Phase1Complete \/ gpc \in {"p3_loop", "p3_unit"}
  /\ DOMAIN master_vocabulary_data =
       UNION { DOMAIN per_text_word_pos_counts_list[k] : k \in 1..num_texts }
  /\ \A u \in DOMAIN master_vocabulary_data :
       /\ \A k \in 1..num_texts :
            master_vocabulary_data[u].v_per_text[k] =
              IF u \in DOMAIN per_text_word_pos_counts_list[k]
                THEN per_text_word_pos_counts_list[k][u] ELSE 0
       /\ master_vocabulary_data[u].f_total =
            SeqSum(master_vocabulary_data[u].v_per_text)

\* C12: the phases are sequential in state: a step creates or updates a
\* vocabulary unit only when every part's size has been recorded and the
\* total size computed, and a step invokes the metric engine only when
\* every unit's per-part vector and total frequency are fully populated.
C12_PhasesSequentialInState ==
  [][ /\ master_vocabulary_data' # master_vocabulary_data => Phase1Complete
      /\ engine_log' # engine_log => VocabularyComplete ]_vars

C12_Witness ==
  /\ num_texts = 2
  /\ Len(engine_log) = 2
  /\ \E u \in DOMAIN master_vocabulary_data :
       /\ master_vocabulary_data[u].v_per_text[1] > 0
       /\ master_vocabulary_data[u].v_per_text[2] > 0

\* The analyzer's arguments are invalid by the engine's contract.
InvalidEngineInput ==
  \/ an_T <= 0
  \/ Len(an_v) # Len(an_sizes)
  \/ Len(an_v) = 0
  \/ \E k \in DOMAIN an_v : an_v[k] < 0
  \/ \E k \in DOMAIN an_sizes : an_sizes[k] < 0

\* C13: constructing the analyzer raises a validation error, and no
\* metrics record is produced, whenever T is not positive, v and sizes
\* differ in length, the vectors are empty, or v or sizes has a negative
\* entry.
C13_InvalidInputRejected ==
  (an_pc \notin {"off", "new"} /\ InvalidEngineInput)
    => /\ an_pc = "rejected"
       /\ an_error = "ValueError"
       /\ an_metrics = <<>>

\* Number of entries of s that are greater than 0.
RECURSIVE CountPositive(_)
CountPositive(s) ==
  IF s = <<>> THEN 0
  ELSE (IF Head(s) > 0 THEN 1 ELSE 0) + CountPositive(Tail(s))

\* C14: for every vector v of length n the engine accepts, Range is the
\* number of indices with v_i > 0 and lies between 0 and n, and
\* Pervasiveness PT is Range / n and lies between 0 and 1.
C14_RangeAndPervasiveness ==
  an_pc = "done"
    => LET m == an_metrics[1]
           n == Len(an_v)
       IN /\ m.range_val = CountPositive(an_v)
          /\ 0 <= m.range_val /\ m.range_val <= n
          /\ m.pervasiveness_PT.num * n = m.range_val * m.pervasiveness_PT.den
          /\ ~FLess(m.pervasiveness_PT, Frac(0, 1))
          /\ ~FLess(Frac(1, 1), m.pervasiveness_PT)

C14_Witness ==
  /\ an_pc = "done"
  /\ Len(an_v) = 2
  /\ an_metrics[1].range_val = 1
  /\ an_metrics[1].pervasiveness_PT = Frac(1, 2)
  /\ \E k \in DOMAIN an_v : an_v[k] = 0

\* C15 as stated: for every valid input of the engine (no negative entry,
\* equal lengths n >= 1, T > 0), Evenness DA lies between 0 and 1, is 1
\* whenever n = 1, and is 0 whenever the total frequency f is 0.
C15_EvennessBounds ==
  (an_pc = "done" /\ ~InvalidEngineInput)
    => LET da == an_metrics[1].evenness_DA
       IN /\ ~FLess(da, Frac(0, 1)) /\ ~FLess(Frac(1, 1), da)
          /\ Len(an_v) = 1 => da = Frac(1, 1)
          /\ f_of(an_v) = 0 => da = Frac(0, 1)

\* C15 amended: for every input the engine accepts, Evenness DA lies
\* between 0 and 1, is 1 whenever n = 1 and f > 0, and is 0 whenever the
\* total frequency f is 0, also when n = 1.
C15_EvennessBoundsPresent ==
  an_pc = "done"
    => LET da == an_metrics[1].evenness_DA
       IN /\ ~FLess(da, Frac(0, 1)) /\ ~FLess(Frac(1, 1), da)
          /\ (Len(an_v) = 1 /\ f_of(an_v) > 0) => da = Frac(1, 1)
          /\ f_of(an_v) = 0 => da = Frac(0, 1)

C15_Witness ==
  /\ an_pc = "done"
  /\ Len(an_v) = 1
  /\ f_of(an_v) = 0
  /\ an_metrics[1].evenness_DA = Frac(0, 1)

\* C16: single-part scenario: for every engine input with n = 1 and
\* f > 0, Juilland's D is 1, Evenness DA is 1 and Carroll's D2 is 0.
C16_SinglePartScenario ==
  (an_pc = "done" /\ Len(an_v) = 1 /\ f_of(an_v) > 0)
    => /\ an_metrics[1].juilland_d = Exact(Frac(1, 1))
       /\ an_metrics[1].evenness_DA = Frac(1, 1)
       /\ an_metrics[1].carroll_d2 = Exact(Frac(0, 1))

\* C17: absent-unit scenario: for every analyzer built with an all-zero
\* frequency vector of any length n >= 1, valid sizes and T > 0, Range,
\* PT, DA, DP and the KL divergence are all 0.
C17_AbsentUnitScenario ==
  (an_pc = "done" /\ \A k \in DOMAIN an_v : an_v[k] = 0)
    => /\ an_metrics[1].range_val = 0
       /\ an_metrics[1].pervasiveness_PT = Frac(0, 1)
       /\ an_metrics[1].evenness_DA = Frac(0, 1)
       /\ an_metrics[1].dp = Frac(0, 1)
       /\ an_metrics[1].kl_divergence = Exact(Frac(0, 1))

C17_Witness ==
  /\ an_pc = "done"
  /\ an_v = <<0, 0>>
  /\ an_sizes = <<1, 2>>
  /\ an_metrics[1].dp = Frac(0, 1)
  /\ an_metrics[1].kl_divergence.kind = "exact"

\* The mean of |p_a - p_b| over the pairs a < b of a vector of fractions.
MeanPairwiseDifference(p) ==
  LET n == Len(p)
      total == FSum([a \in 1..n |->
                       FSum([b \in 1..n |->
                               IF a < b THEN FAbs(FSub(p[a], p[b]))
                               ELSE Frac(0, 1)])])
  IN FDiv(total, Frac((n * (n - 1)) \div 2, 1))

\* C18: for n >= 2 and f > 0 with mean(p) > 0, Evenness DA is 1 minus the
\* mean of |p_i - p_j| over the pairs i < j divided by twice the mean of
\* p, clamped to [0,1], where p_i = v_i / sizes_i; in scenario A
\* (sizes 10, 10, 10 and v = 5, 0, 5) Range is 2, PT is 2/3, FT is 1/3,
\* the mean pairwise difference is 1/3 and DA is 1/2.
C18_EvennessFormula ==
  an_pc = "done"
    => LET m == an_metrics[1]
           n == Len(an_v)
           p == [k \in 1..n |->
                   IF an_sizes[k] > 0 THEN Frac(an_v[k], an_sizes[k])
                   ELSE Frac(0, 1)]
           mean == FDiv(FSum(p), Frac(n, 1))
           raw == FSub(Frac(1, 1),
                       FDiv(MeanPairwiseDifference(p),
                            FMul(Frac(2, 1), mean)))
       IN /\ (n >= 2 /\ f_of(an_v) > 0 /\ FLess(Frac(0, 1), mean))
               => m.evenness_DA =
                    (IF FLess(raw, Frac(0, 1)) THEN Frac(0, 1)
                     ELSE IF FLess(Frac(1, 1), raw) THEN Frac(1, 1)
                     ELSE raw)
          /\ (an_v = ScenarioA.v /\ an_sizes = ScenarioA.sizes
                /\ an_T = ScenarioA.T)
               => /\ m.range_val = 2
                  /\ m.pervasiveness_PT = Frac(2, 3)
                  /\ m.mean_text_frequency_FT = Frac(1, 3)
                  /\ MeanPairwiseDifference(p) = Frac(1, 3)
                  /\ m.evenness_DA = Frac(1, 2)

C18_Witness ==
  /\ an_pc = "done"
  /\ an_v = ScenarioA.v /\ an_sizes = ScenarioA.sizes /\ an_T = ScenarioA.T
  /\ an_metrics[1].evenness_DA = Frac(1, 2)

\* C19: for every engine input with f > 0 the KL divergence is +inf if
\* and only if some part has v_i > 0 while its size, and so its expected
\* share s_i, is 0; otherwise it is finite; and it is 0 when f is 0.
C19_KlInfiniteIffEmptyPart ==
  an_pc = "done"
    => LET kl == an_metrics[1].kl_divergence
       IN /\ f_of(an_v) > 0
               => (kl = Inf <=> \E k \in DOMAIN an_v :
                                  an_v[k] > 0 /\ an_sizes[k] = 0)
          /\ kl # Inf => kl.kind \in {"exact", "sum_p_log2_ratio"}
          /\ f_of(an_v) = 0 => kl = Exact(Frac(0, 1))

C19_Witness ==
  /\ an_pc = "done"
  /\ Len(an_v) = 2
  /\ an_v[1] > 0 /\ an_sizes[1] > 0
  /\ an_v[2] > 0 /\ an_sizes[2] = 0
  /\ an_metrics[1].kl_divergence = Inf

\* The size the tokenizer reports for part k under the stopword policy
\* `exclude` (0 for a blank or unreadable part, which is not tokenized).
PartSizeUnder(k, exclude) ==
  IF ReadFile(docs[k]).blank THEN 0
  ELSE ProcessTextChinese(ReadFile(docs[k]).toks, exclude).size

\* C20: part sizes do not depend on the stopword policy: the size recorded
\* for every part is the one a run on the same corpus with the opposite
\* exclude_stopwords flag records, and so is the total size.
C20_SizesIndependentOfStopwordPolicy ==
  /\ \A k \in 1..i :
       corpus_part_sizes_words[k] = PartSizeUnder(k, ~exclude_stop_words)
  /\ (num_texts > 0 /\ i = num_texts
        /\ gpc \notin {"p1_loop", "p1_read", "p1_total", "raised"})
       => total_corpus_words =
            SeqSum([k \in 1..num_texts |->
                      PartSizeUnder(k, ~exclude_stop_words)])

C20_Witness ==
  /\ gen_outcome.kind = "returned"
  /\ exclude_stop_words
  /\ num_texts = 2
  /\ total_corpus_words = 3
  /\ PartColumnSum(1) < corpus_part_sizes_words[1]
  /\ PartColumnSum(2) = corpus_part_sizes_words[2]

C22_Phase1ChecksBeforeEachPart ==
  yield_progress =>
    /\ \A j \in DOMAIN read_log :
         \E k \in DOMAIN flag_log :
           /\ flag_log[k].op = "read" /\ ~flag_log[k].seen
           /\ flag_log[k].event = "pass1_progress"
           /\ flag_log[k].current = read_log[j]
           /\ flag_log[k].parts_read = read_log[j] - 1
    /\ \A k \in DOMAIN flag_log :
         (/\ flag_log[k].op = "read" /\ flag_log[k].seen
          /\ flag_log[k].event = "pass1_progress")
           => /\ \A j \in DOMAIN read_log : read_log[j] < flag_log[k].current
              /\ \A j \in DOMAIN tokenizer_log :
                   tokenizer_log[j].part < flag_log[k].current
              /\ ~gen_active /\ gen_outcome = NotFinished
              /\ wpc \in {"cleanup", "finished"}
              /\ k = Len(flag_log)

\* The flag was seen set on the second part's progress event: the first
\* part was read and tokenized, the second never, and the worker ended.
C22_Witness ==
  /\ yield_progress /\ num_texts = 2
  /\ wpc = "finished"
  /\ read_log = <<1>>
  /\ Len(tokenizer_log) = 1
  /\ flag_log # <<>>
  /\ flag_log[Len(flag_log)].op = "read"
  /\ flag_log[Len(flag_log)].seen
  /\ flag_log[Len(flag_log)].event = "pass1_progress"
  /\ flag_log[Len(flag_log)].current = 2

\* C23: with yield_progress=False the call itself hands the caller a plain
\* list (the results, or the empty list when no file is eligible or the
\* corpus size is zero) or raises ValueError for an invalid argument; the
\* caller never holds a generator object.
C23_DirectCallReturnsList ==
  ~yield_progress =>
    /\ cpc # "has_generator"
    /\ (~arg_ok => cpc \in {"call", "raised"})
    /\ (cpc = "returned" => gen_outcome.has_value)

\* The list the worker emitted with results_ready, which is what the
\* window holds when it exports.
EmittedResults ==
  LET k == CHOOSE k \in DOMAIN signals : signals[k].sig = "results_ready"
  IN signals[k].data

\* C24 as stated: the export is one header row then one row per unit, and
\* its columns are word, pos, character count, total frequency followed by
\* the 16 metric columns in the order of the metric table: Range, SD, VC,
\* Juilland's D, Carroll's D2, Rosengren's S_adj, DP, DP_norm, KL, JSD,
\* Hellinger, FT, PT, DA, FT*PT, FT*DA.
C24_ExportColumnsInTableOrder ==
  csv_file # <<>> =>
    /\ Len(csv_file) = 1 + Len(EmittedResults)
    /\ csv_file[1] =
         <<"Word", "POS", "Chars", "Total Freq (Analyzed)", "Range",
           "SD Population", "VC Population", "Juilland's D", "Carroll's D2",
           "Rosengren's S", "DP", "DP_norm", "KL Divergence",
           "JSD Dispersion", "Hellinger Dispersion", "Mean Text Freq (FT)",
           "Pervasiveness (PT)", "Evenness (DA)", "FT * PT", "FT * DA">>

\* C24, amended: an export of a non-empty result list is one header row
\* then one row per unit, in the order of the results; its columns are
\* word, pos, character count, total frequency followed by the 16 metric
\* columns in the display order FT, PT, DA, FT*DA, FT*PT, Range, DP,
\* DP_norm, KL, JSD, Hellinger, Juilland's D, Carroll's D2, Rosengren's S,
\* SD, VC; and the cell of a row under each column holds that value of the
\* row's unit.
C24_ExportColumnsInDisplayOrder ==
  csv_file # <<>> =>
    /\ Len(csv_file) = 1 + Len(EmittedResults)
    /\ csv_file[1] =
         <<"Word", "POS", "Chars", "Total Freq (Analyzed)",
           "Mean Text Freq (FT)", "Pervasiveness (PT)", "Evenness (DA)",
           "FT * DA", "FT * PT", "Range", "DP", "DP_norm", "KL Divergence",
           "JSD Dispersion", "Hellinger Dispersion", "Juilland's D",
           "Carroll's D2", "Rosengren's S", "SD Population",
           "VC Population">>
    /\ \A r \in DOMAIN EmittedResults :
         LET row == csv_file[r + 1]
             e == EmittedResults[r]
             fields ==
               <<"mean_text_frequency_FT", "pervasiveness_PT", "evenness_DA",
                 "ft_adjusted_by_DA", "ft_adjusted_by_PT", "range_val", "dp",
                 "dp_norm", "kl_divergence", "jsd_dispersion",
                 "hellinger_dispersion", "juilland_d", "carroll_d2",
                 "roschengren_s_adj", "sd_population", "vc_population">>
         IN /\ Len(row) = 20
            /\ row[1].val = e.word
            /\ row[2].val = e.pos
            /\ row[3].val = Len(e.word)
            /\ row[4].val = e.total_frequency_in_analysis
            /\ \A k \in 1..16 : row[4 + k].val = e.metrics_obj[fields[k]]

\* A result list of two units was exported: a header and two rows.
C24_Witness ==
  /\ Len(csv_file) = 3
  /\ csv_file[2][1].val # csv_file[3][1].val
  /\ csv_file[2][10].val = 1

\* C25: phase 3 only reads the aggregates: from the completion of phase 2
\* to the end of the run no step changes a unit's total frequency or
\* per-part vector, the set of units, a part's size or the total size.
C25_Phase3ReadsAggregatesOnly ==
  [][ Phase2Done =>
        UNCHANGED <<master_vocabulary_data, vocab_order,
                    corpus_part_sizes_words, total_corpus_words,
                    num_texts>> ]_vars

\* Phase 3 has computed the metrics of a unit that occurs twice, and the
\* run has ended.
C25_Witness ==
  /\ gpc = "done" /\ total_corpus_words > 0
  /\ Len(engine_log) >= 1
  /\ \E u \in DOMAIN master_vocabulary_data :
       master_vocabulary_data[u].f_total = 2

\* The accesses to the flag of one kind, in order.
FlagAccesses(op) == SelectSeq(flag_log, LAMBDA a : a.op = op)

\* C26: in phase 3 the flag is read at least once every ProgressEvery (50)
\* units: the metric engine has been invoked for at most 50 units since the
\* worker's last read of the flag and for at most 50 units since stop()
\* returned, and a worker stopped before it emitted results ends without
\* emitting any.
C26_Phase3BoundedResponse ==
  Phase2Done =>
    /\ LET reads == FlagAccesses("read")
       IN reads # <<>> =>
            Len(engine_log) - reads[Len(reads)].units_done <= ProgressEvery
    /\ \A k \in DOMAIN flag_log :
         flag_log[k].op = "set" =>
           /\ Len(engine_log) - flag_log[k].units_done <= ProgressEvery
           /\ (flag_log[k].results = 0 /\ wpc = "finished")
                => CountSignals("results_ready") = 0

\* stop() returned right after the worker had read the flag on the progress
\* event of unit 50; the engine was invoked for 50 more units, then the
\* worker saw the flag and ended without results.
C26_Witness ==
  /\ wpc = "finished"
  /\ CountSignals("results_ready") = 0
  /\ \E k \in DOMAIN flag_log :
       /\ flag_log[k].op = "set"
       /\ Len(engine_log) - flag_log[k].units_done = ProgressEvery

\* What a pipeline just constructed does on the current input, written
\* from the input alone: the size and the counts of each part ...
FreshSizes ==
  [k \in DOMAIN docs |->
     IF ReadFile(docs[k]).blank THEN 0
     ELSE ProcessTextChinese(ReadFile(docs[k]).toks, exclude_stop_words).size]

FreshCounts ==
  [k \in DOMAIN docs |->
     IF ReadFile(docs[k]).blank THEN Counter(<<>>)
     ELSE Counter(ProcessTextChinese(ReadFile(docs[k]).toks,
                                      exclude_stop_words).units)]

FreshUnits == UNION { DOMAIN FreshCounts[k] : k \in DOMAIN docs }

\* ... the results, as a set (the order of the units is arbitrary) ...
FreshResults ==
  { LET v == [k \in DOMAIN docs |->
                IF u \in DOMAIN FreshCounts[k] THEN FreshCounts[k][u] ELSE 0]
    IN [word |-> u[1], pos |-> u[2],
        total_frequency_in_analysis |-> SeqSum(v),
        metrics_obj |-> calculate_all_metrics(v, FreshSizes,
                                              SeqSum(FreshSizes))] :
    u \in FreshUnits }

\* ... the events from the end of pass 1 on ...
FreshEventsAfterPass1 ==
  IF SeqSum(FreshSizes) < 1 THEN <<"pass1_complete", "status", "final_results">>
  ELSE <<"pass1_complete", "status", "pass2_complete", "status">> \o
       [k \in 1..Cardinality({ c \in 1..Cardinality(FreshUnits) :
                                 \/ c % ProgressEvery = 0
                                 \/ c = Cardinality(FreshUnits) }) |->
          "pass3_progress"] \o
       <<"analysis_complete", "final_results">>

\* ... the events of pass 1 from part k on, which end at the first text
\* the tokenizer is asked to process while it is not ready ...
RECURSIVE FreshEventsFrom(_)
FreshEventsFrom(k) ==
  IF k > Len(docs) THEN FreshEventsAfterPass1
  ELSE IF ReadFile(docs[k]).blank
    THEN <<"pass1_progress", "warning">> \o FreshEventsFrom(k + 1)
  ELSE IF IsReady THEN <<"pass1_progress">> \o FreshEventsFrom(k + 1)
  ELSE <<"pass1_progress">>

\* ... and the types of all its events.
FreshEvents ==
  IF ~arg_ok THEN <<"error">>
  ELSE IF docs = <<>> THEN <<"status", "final_results">>
  ELSE <<"status">> \o FreshEventsFrom(1)

\* The run raises: the argument is invalid and no event can report it, or
\* a text reaches a tokenizer that is not ready.
FreshRaises ==
  \/ ~arg_ok /\ ~yield_progress
  \/ arg_ok /\ ~IsReady /\ \E k \in DOMAIN docs : ~ReadFile(docs[k]).blank

\* C27: no run on a pipeline is affected by the earlier runs on it: the
\* events of every run, the first or a later one, after runs that ended,
\* raised, were abandoned at an event, had a corpus of size zero or found
\* no file, are the events of a fresh pipeline on the same input (a prefix
\* of them while the run goes on or when it was abandoned), and so are its
\* results and whether it raises.
C27_RunsIndependentOfEarlierRuns ==
  /\ yield_progress =>
       /\ Len(events) <= Len(FreshEvents)
       /\ \A k \in DOMAIN events : events[k].type = FreshEvents[k]
       /\ \A k \in DOMAIN events :
            events[k].type = "final_results"
              => /\ Range(events[k].data) =
                      (IF docs = <<>> \/ SeqSum(FreshSizes) < 1 THEN {}
                       ELSE FreshResults)
                 /\ Len(events[k].data) = Cardinality(Range(events[k].data))
       /\ cpc \in {"returned", "raised"} =>
            /\ (cpc = "raised") = FreshRaises
            /\ cpc = "returned" => Len(events) = Len(FreshEvents)
  /\ ~yield_progress =>
       /\ events = <<>>
       /\ cpc \in {"returned", "raised"} =>
            /\ (cpc = "raised") = FreshRaises
            /\ cpc = "returned" =>
                 /\ gen_outcome.has_value
                 /\ Range(gen_outcome.value) =
                      (IF docs = <<>> \/ SeqSum(FreshSizes) < 1 THEN {}
                       ELSE FreshResults)
                 /\ Len(gen_outcome.value) =
                      Cardinality(Range(gen_outcome.value))

\* A second run on the same pipeline ended with results for two units.
C27_Witness ==
  /\ run_no = 2 /\ cpc = "returned" /\ yield_progress
  /\ Len(docs) = 1
  /\ events # <<>>
  /\ events[Len(events)].type = "final_results"
  /\ Len(events[Len(events)].data) = 2

\* C28: once a call of process_corpus has ended, the length of
\* corpus_part_sizes_words is num_texts and every vocabulary entry's
\* per-part vector has length num_texts, also when a run with parts is
\* followed by a run that finds no file.
C28_StateShapeAfterCall ==
  cpc \in {"returned", "raised", "abandoned"} =>
    /\ Len(corpus_part_sizes_words) = num_texts
    /\ \A u \in DOMAIN master_vocabulary_data :
         Len(master_vocabulary_data[u].v_per_text) = num_texts

\* C29: with a tokenizer that returns no more units than its token count,
\* from pass2_complete on every unit has v_i <= size_i in every part;
\* hence every unit handed to the metric engine has v_i = 0 in a part of
\* size 0 and a density p_i of at most 1 in every part, and every entry of
\* the results has a total frequency of at least 1, a Range of at least 1
\* and a KL divergence that is not +inf.
C29_FrequenciesWithinPartSizes ==
  Phase2Done =>
    /\ \A u \in DOMAIN master_vocabulary_data :
         \A k \in 1..num_texts :
           master_vocabulary_data[u].v_per_text[k] <= corpus_part_sizes_words[k]
    /\ \A e \in DOMAIN engine_log :
         LET v == master_vocabulary_data[engine_log[e].unit].v_per_text
         IN \A k \in 1..num_texts :
              /\ corpus_part_sizes_words[k] = 0 => v[k] = 0
              /\ ~FLess(Frac(1, 1), p_of(v, corpus_part_sizes_words)[k])
    /\ \A r \in DOMAIN all_word_metrics_results :
         /\ all_word_metrics_results[r].total_frequency_in_analysis >= 1
         /\ all_word_metrics_results[r].metrics_obj.range_val >= 1
         /\ all_word_metrics_results[r].metrics_obj.kl_divergence # Inf

\* A run over an empty part and a part in which a unit occurs twice has
\* ended with that unit's metrics.
C29_Witness ==
  /\ gpc = "done" /\ num_texts = 2
  /\ corpus_part_sizes_words[1] = 0
  /\ Len(all_word_metrics_results) >= 1
  /\ all_word_metrics_results[1].total_frequency_in_analysis = 2
  /\ all_word_metrics_results[1].metrics_obj.range_val = 1

\* The worker threads that are running: the one the window started first,
\* until its run() has returned, and the ones started by later clicks.
WorkersRunning ==
  (IF wpc \in {"off", "finished"} THEN 0 ELSE 1) + extra_workers

\* C30: at most one analysis worker is running at any time: whatever the
\* start clicks, the cancel clicks and the worker's signals (per-unit error
\* events forwarded as error_signal included), the start button is enabled
\* only while no worker is running, and no second worker is started while
\* the first is still processing.
C30_AtMostOneWorkerRunning ==
  /\ start_button_enabled => WorkersRunning = 0
  /\ WorkersRunning <= 1

====
